---- MODULE Spec2Model ----
(***************************************************************************)
(* A model of playmer/rnscripter: the SPB image codec (image.rs), the key  *)
(* table loader (lib.rs) and the SAR / NSA / NS2 archive reader and writer *)
(* (archive.rs).  Bytes are naturals 0..255, byte strings are sequences,   *)
(* a bit stream is a sequence of 0/1 packed most significant bit first.    *)
(***************************************************************************)
EXTENDS Naturals, Integers, Sequences, FiniteSets, TLC

VARIABLES
    build,      \* "debug" (overflow checks on) or "release" (wrapping)
    image,      \* SPB: the Image handed to encode_spb
    spb_data,   \* SPB: the bytes encode_spb returned
    bmp,        \* SPB: the picture decode_spb produced
    spb_pc,     \* SPB: "idle", "input", "encoded", "decoded", "panicked"
    key_file,   \* key table: the bytes of the file given to create_keytable
    key_result, \* key table: [status, table] of the call
    enc_in,     \* codec choice: [path, data, bzip2, spb]
    enc_out,    \* codec choice: the Compression chosen, "none" before the call
    src_files,  \* writer: the entries list, each [name, data]
    wargs,      \* writer: [kind, offset, bzip2, spb, key]
    container,  \* reader: the description the container was laid out from
    disk,       \* the bytes of the container file
    w_result,   \* "none", "true", "false", "panic"; "given" for a laid-out file
    rargs,      \* open_file arguments: [type, offset, key]
    arc,        \* the Archive: [status, cursor, position, index]
    outputs     \* the extract calls so far: [entry, status, data, picture]

spb_vars == <<image, spb_data, bmp, spb_pc>>
key_vars == <<key_file, key_result>>
enc_vars == <<enc_in, enc_out>>
arc_vars == <<src_files, wargs, container, disk, w_result, rargs, arc, outputs>>
vars == <<build, spb_vars, key_vars, enc_vars, arc_vars>>

Builds == {"debug", "release"}
Byte == 0..255

(***************************************************************************)
(* Generic helpers.                                                        *)
(***************************************************************************)
Max(a, b) == IF a < b THEN b ELSE a

AbsDiff(a, b) == IF a < b THEN b - a ELSE a - b

RECURSIVE Pow2(_)
Pow2(n) == IF n = 0 THEN 1 ELSE 2 * Pow2(n - 1)

\* The low `count` bits of `value`, most significant first.
RECURSIVE ToBits(_, _)
ToBits(value, count) ==
    IF count = 0 THEN <<>>
    ELSE Append(ToBits(value \div 2, count - 1), value % 2)

RECURSIVE FromBits(_)
FromBits(bits) ==
    IF bits = <<>> THEN 0
    ELSE 2 * FromBits(SubSeq(bits, 1, Len(bits) - 1)) + bits[Len(bits)]

Reverse(s) == [k \in 1..Len(s) |-> s[Len(s) + 1 - k]]

\* BitWriteStream into a Vec<u8>: the last byte is padded with zero bits.
PackBits(bits) ==
    LET n == (Len(bits) + 7) \div 8
        bit(k) == IF k <= Len(bits) THEN bits[k] ELSE 0
    IN  [b \in 1..n |-> FromBits([j \in 1..8 |-> bit(8 * (b - 1) + j)])]

\* BitReadBuffer over a byte slice.
UnpackBits(bytes) ==
    [k \in 1..(8 * Len(bytes)) |-> ToBits(bytes[((k - 1) \div 8) + 1], 8)[((k - 1) % 8) + 1]]

\* A sequence given by a function constructor, evaluated once.
Strict(s) == s \o <<>>

\* bsW: the low n bits of v, most significant first.
bsW(n, v) == Strict([k \in 1..n |-> (v \div (2 ^ (n - k))) % 2])

\* The sum of f over lo..hi and the parts lo..hi of a sequence of
\* sequences in one.
RECURSIVE SumOver(_, _, _)
SumOver(f, lo, hi) ==
    IF lo > hi THEN 0
    ELSE IF lo = hi THEN f[lo]
    ELSE SumOver(f, lo, (lo + hi) \div 2) + SumOver(f, ((lo + hi) \div 2) + 1, hi)

RECURSIVE Flatten(_, _, _)
Flatten(parts, lo, hi) ==
    IF lo > hi THEN <<>>
    ELSE IF lo = hi THEN parts[lo]
    ELSE Flatten(parts, lo, (lo + hi) \div 2) \o Flatten(parts, ((lo + hi) \div 2) + 1, hi)

\* The value of the n bits that follow position pos.
Field(bits, pos, n) == SumOver([k \in 1..n |-> bits[pos + k] * (2 ^ (n - k))], 1, n)

StartsWith(data, prefix) ==
    Len(data) >= Len(prefix) /\ SubSeq(data, 1, Len(prefix)) = prefix

(***************************************************************************)
(* image.rs: min_bits and bit_distances.                                   *)
(***************************************************************************)
RECURSIVE MinBitsLoop(_, _)
MinBitsLoop(value, bits) ==
    IF value = 0 THEN bits ELSE MinBitsLoop(value \div 2, bits + 1)

\* min_bits counting from 0: the floor of log2 without the + 1.
MinBitsFloor(value) == IF value = 0 THEN 0 ELSE MinBitsLoop(value \div 2, 0)

min_bits(value) == IF value = 0 THEN 0 ELSE MinBitsLoop(value \div 2, 1)

\* An iteration whose add branch moves last_byte by the difference and the
\* decoder's + 1.
DistanceStepPlusOne(acc, channel_byte) ==
    LET add_difference == acc.last_byte < channel_byte
        initial_difference == AbsDiff(acc.last_byte, channel_byte)
        next_last == IF add_difference THEN acc.last_byte + initial_difference + 1
                     ELSE acc.last_byte - initial_difference
        difference == IF add_difference THEN initial_difference - 1
                      ELSE initial_difference
    IN  [last_byte |-> next_last % 256,
         differences |-> Append(acc.differences,
                                [add_difference |-> add_difference, difference |-> difference]),
         max_bits_to_read |-> Max(acc.max_bits_to_read, min_bits(difference)),
         implicit_add |-> acc.implicit_add \/ add_difference,
         overflow |-> acc.overflow \/ next_last > 255 \/ next_last < 0]

\* One iteration of the loop of bit_distances over the sample channel_byte:
\* acc = [last_byte, differences, max_bits_to_read, implicit_add, overflow].
DistanceStep(acc, channel_byte) ==
    LET add_difference == acc.last_byte < channel_byte
        initial_difference == AbsDiff(acc.last_byte, channel_byte)
        next_last == IF add_difference THEN acc.last_byte + initial_difference
                     ELSE acc.last_byte - initial_difference
        difference == IF add_difference THEN initial_difference - 1
                      ELSE initial_difference
    IN  [last_byte |-> next_last % 256,
         differences |-> Append(acc.differences,
                                [add_difference |-> add_difference, difference |-> difference]),
         max_bits_to_read |-> Max(acc.max_bits_to_read, min_bits(difference)),
         implicit_add |-> acc.implicit_add \/ add_difference,
         overflow |-> acc.overflow \/ next_last > 255 \/ next_last < 0]

DistanceAcc(last_byte, samples) ==
    LET a0 == [last_byte |-> last_byte, differences |-> <<>>, max_bits_to_read |-> 0,
               implicit_add |-> FALSE, overflow |-> FALSE]
    IN  DistanceStep(DistanceStep(DistanceStep(DistanceStep(a0, samples[1]), samples[2]),
                                  samples[3]), samples[4])

\* SelectHeader as an encoder that looks at max_bits_to_read alone.
SelectHeaderNaive(max_bits_to_read, implicit_add) ==
    IF max_bits_to_read = 0 THEN "Stamp4"
    ELSE IF max_bits_to_read = 1 THEN "ReadBitPlusOne"
    ELSE IF max_bits_to_read <= 6 THEN "ReadBits"
    ELSE "Read4"

\* The header chosen from max_bits_to_read and implicit_add (the final match).
SelectHeader(max_bits_to_read, implicit_add) ==
    IF max_bits_to_read = 0
    THEN (IF implicit_add THEN "ReadBitPlusOne" ELSE "Stamp4")
    ELSE IF max_bits_to_read = 1 THEN "ReadBitPlusOne"
    ELSE IF max_bits_to_read <= 6 THEN "ReadBits"
    ELSE "Read4"

\* What bit_distances does behind its loop, acc being the loop's result: the
\* two consistency panics and the match that picks the header.
DistanceHeader(acc, last_byte, samples) ==
    LET all_same == \A k \in 1..4 : samples[k] = last_byte
        panic_same == all_same /\ acc.max_bits_to_read # 0
        panic_range == /\ acc.max_bits_to_read > 1
                       /\ acc.max_bits_to_read < 7
                       /\ ~ \E k \in 1..4 : acc.differences[k].difference > 1
    IN  [kind |-> IF panic_same \/ panic_range THEN "Panic"
                  ELSE SelectHeader(acc.max_bits_to_read, acc.implicit_add),
         differences |-> acc.differences,
         bits_to_read |-> acc.max_bits_to_read,
         overflow |-> acc.overflow]

\* bit_distances(last_byte, channel, bytes) on the four samples bytes[i][channel].
bit_distances(last_byte, samples) ==
    DistanceHeader(DistanceAcc(last_byte, samples), last_byte, samples)

(***************************************************************************)
(* image.rs: encode_spb.                                                   *)
(***************************************************************************)
\* last_data_byte after the four "+= difference + 1" / "-= difference" updates
\* of one chunk; overflow is set when a u8 operation leaves 0..255.
RECURSIVE ApplyDifferences(_, _, _)
ApplyDifferences(last, differences, k) ==
    IF k > Len(differences) THEN [last |-> last, overflow |-> FALSE]
    ELSE LET d == differences[k]
             raw == IF d.add_difference THEN last + d.difference + 1
                    ELSE last - d.difference
             rest == ApplyDifferences(raw % 256, differences, k + 1)
         IN  [last |-> rest.last,
              overflow |-> rest.overflow \/ raw > 255 \/ raw < 0]

BoolBit(b) == IF b THEN 1 ELSE 0

\* The payload of a ReadBitPlusOne or ReadBits chunk: per sample the magnitude
\* in `width` bits (nothing when width = 0), then the add flag.
RECURSIVE DifferenceBits(_, _, _)
DifferenceBits(differences, width, k) ==
    IF k > Len(differences) THEN <<>>
    ELSE ToBits(differences[k].difference, width)
         \o <<BoolBit(differences[k].add_difference)>>
         \o DifferenceBits(differences, width, k + 1)

\* One arm of the match in encode_spb: the bits written for the chunk and
\* the new last_data_byte.
EncodeChunk(header, samples, last) ==
    IF header.kind = "Stamp4"
    THEN [bits |-> ToBits(0, 3), last |-> last, overflow |-> FALSE]
    ELSE IF header.kind = "Read4"
    THEN [bits |-> ToBits(6, 3) \o ToBits(samples[1], 8) \o ToBits(samples[2], 8)
                   \o ToBits(samples[3], 8) \o ToBits(samples[4], 8),
          last |-> samples[4], overflow |-> FALSE]
    ELSE IF header.kind = "ReadBitPlusOne"
    THEN LET upd == ApplyDifferences(last, header.differences, 1)
         IN  [bits |-> ToBits(7, 3) \o <<BoolBit(header.bits_to_read = 1)>>
                       \o DifferenceBits(header.differences,
                                         IF header.bits_to_read = 1 THEN 1 ELSE 0, 1),
              last |-> upd.last, overflow |-> upd.overflow]
    ELSE LET upd == ApplyDifferences(last, header.differences, 1)
         IN  [bits |-> ToBits(header.bits_to_read - 1, 3)
                       \o DifferenceBits(header.differences, header.bits_to_read, 1),
              last |-> upd.last, overflow |-> upd.overflow]

\* The four samples of channel ch (0..2) at buffer positions i..i+3 (0-based).
Window(buffer, ch, i) == [k \in 1..4 |-> buffer[i + k][ch + 1]]

\* The while loop of one channel: [bits, panic].  `checked` is the build's
\* overflow checking.
RECURSIVE EncodeChunks(_, _, _, _, _, _)

\* The body of the loop at position i, header being what bit_distances gave.
EncodeWindow(buffer, ch, i, total_pixels, last, checked, header) ==
    IF header.kind = "Panic" \/ (checked /\ header.overflow)
    THEN [bits |-> <<>>, panic |-> TRUE]
    ELSE LET chunk == EncodeChunk(header, Window(buffer, ch, i), last)
             rest == EncodeChunks(buffer, ch, i + 4, total_pixels, chunk.last, checked)
         IN  [bits |-> chunk.bits \o rest.bits,
              panic |-> rest.panic \/ (checked /\ chunk.overflow)]

\* A loop that stops in front of a window that runs past the last pixel.
EncodeChunksNoTail(buffer, ch, i, total_pixels, last, checked) ==
    IF ~(i + 3 < total_pixels) THEN [bits |-> <<>>, panic |-> FALSE]
    ELSE EncodeWindow(buffer, ch, i, total_pixels, last, checked,
                      bit_distances(last, Window(buffer, ch, i)))

\* image.pixel_buffer[i..i+4] panics when the padded buffer ends before i + 4.
EncodeChunks(buffer, ch, i, total_pixels, last, checked) ==
    IF ~(i < total_pixels) THEN [bits |-> <<>>, panic |-> FALSE]
    ELSE IF i + 4 > Len(buffer) THEN [bits |-> <<>>, panic |-> TRUE]
    ELSE EncodeWindow(buffer, ch, i, total_pixels, last, checked,
                      bit_distances(last, Window(buffer, ch, i)))

\* The literal first byte of a channel in front of its chunks.
FirstByteThen(first, rest) ==
    [bits |-> ToBits(first, 8) \o rest.bits, panic |-> rest.panic]

EncodeChannel(buffer, ch, total_pixels, checked) ==
    FirstByteThen(buffer[1][ch + 1],
                  EncodeChunks(buffer, ch, 1, total_pixels, buffer[1][ch + 1], checked))

\* The preprocessing of encode_spb, [panic, pixel_buffer]: every odd row
\* below height is reversed in place, and the pixels behind the rows stay
\* where they are.  pixel_buffer[start..end] panics for a row that ends
\* behind the buffer; the last odd row is the one that ends furthest.
ReverseOddRows(pixel_buffer, width, height) ==
    LET lastOddRow == IF height % 2 = 0 THEN height - 1 ELSE height - 2
    IN  IF height >= 2 /\ (lastOddRow + 1) * width > Len(pixel_buffer)
        THEN [panic |-> TRUE, pixel_buffer |-> <<>>]
        ELSE [panic |-> FALSE,
              pixel_buffer |->
                  [k \in 1..Len(pixel_buffer) |->
                      IF width = 0 \/ (k - 1) \div width >= height
                                  \/ ((k - 1) \div width) % 2 = 0
                      THEN pixel_buffer[k]
                      ELSE pixel_buffer[((k - 1) \div width) * width
                                        + (width - 1 - ((k - 1) % width)) + 1]]]

\* The four pixels pushed behind the image before encoding.
TailPadding == <<<<0, 0, 0>>, <<0, 0, 0>>, <<0, 0, 0>>, <<0, 0, 0>>>>

\* The output buffer: width, height and the three channels in the order
\* they were encoded.
SpbBytes(img, c0, c1, c2) ==
    IF c0.panic \/ c1.panic \/ c2.panic THEN [panic |-> TRUE, bytes |-> <<>>]
    ELSE [panic |-> FALSE,
          bytes |-> PackBits(ToBits(img.width, 16) \o ToBits(img.height, 16)
                             \o c0.bits \o c1.bits \o c2.bits)]

\* The channels of the preprocessed and padded pixel buffer.
EncodeChannels(img, buffer, checked) ==
    SpbBytes(img, EncodeChannel(buffer, 0, img.width * img.height, checked),
                  EncodeChannel(buffer, 1, img.width * img.height, checked),
                  EncodeChannel(buffer, 2, img.width * img.height, checked))

\* encode_spb(image): [panic, bytes], bytes being the output buffer.
encode_spb(img, checked) ==
    LET reversed == ReverseOddRows(img.pixel_buffer, img.width, img.height)
    IN  IF reversed.panic THEN [panic |-> TRUE, bytes |-> <<>>]
        ELSE EncodeChannels(img, reversed.pixel_buffer \o TailPadding, checked)

(***************************************************************************)
(* image.rs: decode_spb.                                                   *)
(***************************************************************************)
\* bitstream.read_int(count): the value and the new position, or ok = FALSE
\* when the stream is too short (the unwrap panics).
ReadInt(bits, pos, count) ==
    IF pos + count > Len(bits) THEN [ok |-> FALSE, value |-> 0, pos |-> pos]
    ELSE [ok |-> TRUE, value |-> FromBits(SubSeq(bits, pos + 1, pos + count)),
          pos |-> pos + count]

\* Store value at 0-based index i of a channel buffer.
Store(buffer, i, value) == [buffer EXCEPT ![i + 1] = value]

\* The "for _ in 0..4" loop: k fields of bits_to_read bits each.
RECURSIVE DecodeFields(_, _, _, _, _, _, _)
DecodeFields(bits, pos, buffer, i, data_byte, bits_to_read, k) ==
    IF k = 0 THEN [ok |-> TRUE, pos |-> pos, buffer |-> buffer, overflow |-> FALSE]
    ELSE LET field == ReadInt(bits, pos, bits_to_read)
             add == (field.value % 2) > 0
             modify_byte == field.value \div 2
             raw == IF add THEN data_byte + modify_byte + 1 ELSE data_byte - modify_byte
             rest == DecodeFields(bits, field.pos, Store(buffer, i, raw % 256), i + 1,
                                  raw % 256, bits_to_read, k - 1)
         IN  IF ~field.ok THEN [ok |-> FALSE, pos |-> pos, buffer |-> buffer, overflow |-> FALSE]
             ELSE [ok |-> rest.ok, pos |-> rest.pos, buffer |-> rest.buffer,
                   overflow |-> rest.overflow \/ raw > 255 \/ raw < 0]

\* The four literal reads of header 6.
RECURSIVE DecodeLiterals(_, _, _, _, _)
DecodeLiterals(bits, pos, buffer, i, k) ==
    IF k = 0 THEN [ok |-> TRUE, pos |-> pos, buffer |-> buffer]
    ELSE LET lit == ReadInt(bits, pos, 8)
         IN  IF ~lit.ok THEN [ok |-> FALSE, pos |-> pos, buffer |-> buffer]
             ELSE DecodeLiterals(bits, lit.pos, Store(buffer, i, lit.value), i + 1, k - 1)

\* The while loop of one channel of decode_spb: [ok, pos, buffer, chunks].
RECURSIVE DecodeChunks(_, _, _, _, _, _)

\* The rest of the channel behind a chunk that left the stream at `pos` and
\* the channel as `buffer`.
NextChunk(bits, pos, buffer, i, total, checked) ==
    LET r == DecodeChunks(bits, pos, buffer, i + 4, total, checked)
    IN  [r EXCEPT !.chunks = r.chunks + 1]

\* The arm of headers 7 and 1..5 behind its four fields.
FieldsChunk(bits, pos, buffer, i, total, checked, width_ok, fields) ==
    IF ~width_ok \/ ~fields.ok \/ (checked /\ fields.overflow)
    THEN [ok |-> FALSE, pos |-> pos, buffer |-> buffer, chunks |-> 0]
    ELSE NextChunk(bits, fields.pos, fields.buffer, i, total, checked)

\* The body of the loop at position i, header being the three bits read.
DecodeChunk(bits, pos, buffer, i, total, checked, header) ==
    LET data_byte == buffer[i]
        bad == [ok |-> FALSE, pos |-> pos, buffer |-> buffer, chunks |-> 0]
    IN  IF ~header.ok THEN bad
        ELSE IF header.value = 0
        THEN NextChunk(bits, header.pos,
                       Store(Store(Store(Store(buffer, i, data_byte), i + 1, data_byte),
                                   i + 2, data_byte), i + 3, data_byte),
                       i, total, checked)
        ELSE IF header.value = 6
        THEN LET lits == DecodeLiterals(bits, header.pos, buffer, i, 4)
             IN  IF ~lits.ok THEN bad
                 ELSE NextChunk(bits, lits.pos, lits.buffer, i, total, checked)
        ELSE LET width_bit == ReadInt(bits, header.pos, 1)
                 bits_to_read == IF header.value = 7 THEN width_bit.value + 1
                                 ELSE header.value + 2
                 start == IF header.value = 7 THEN width_bit.pos ELSE header.pos
             IN  FieldsChunk(bits, pos, buffer, i, total, checked,
                             header.value = 7 => width_bit.ok,
                             DecodeFields(bits, start, buffer, i, data_byte,
                                          bits_to_read, 4))

DecodeChunks(bits, pos, buffer, i, total, checked) ==
    IF ~(i < total) THEN [ok |-> TRUE, pos |-> pos, buffer |-> buffer, chunks |-> 0]
    ELSE DecodeChunk(bits, pos, buffer, i, total, checked, ReadInt(bits, pos, 3))

\* One pass of "for channel in (0..3).rev()": the literal first byte, then
\* the chunks, into a zeroed buffer of total + 4 bytes.
DecodeChannel(bits, pos, total, checked) ==
    LET first == ReadInt(bits, pos, 8)
        zeroed == [k \in 1..(total + 4) |-> 0]
    IN  IF ~first.ok THEN [ok |-> FALSE, pos |-> pos, buffer |-> zeroed, chunks |-> 0]
        ELSE DecodeChunks(bits, first.pos, Store(zeroed, 0, first.value), 1, total, checked)

\* The index into a channel buffer of the pixel at (x, y): odd rows backwards.
PixelIndex(x, y, width) ==
    IF y % 2 = 1 THEN ((width - 1) - x) + y * width ELSE x + y * width

NoPicture == [panic |-> TRUE, width |-> 0, height |-> 0, pixels |-> <<>>, chunks |-> <<>>]

\* A chunk takes at least 3 bits and yields 4 samples, so a stream of n bits
\* cannot fill a channel of more than 4 * (n / 3) + 1 samples: the decoder
\* is then certain to run off the stream (the unwrap of read_int panics).
\* The test spares the model the channel buffers of such a picture.
RunsOffStream(width, height, nbits) ==
    /\ width > 0
    /\ height > (4 * (nbits \div 3) + 1) \div width

\* decode_spb(buffer): the picture handed to the BMP writer, pixel (x, y)
\* set to [r, g, b, 255]; panic when a read_int unwrap or a checked u8
\* operation fails.
\* The loop "for channel in (0..3).rev()", `left` channels to go: [ok,
\* channels], the channels in the order they were decoded (b, g, r).
RECURSIVE DecodeChannels(_, _, _, _, _, _)

ChannelDecoded(bits, total, checked, left, done, channel) ==
    IF ~channel.ok THEN [ok |-> FALSE, channels |-> done]
    ELSE DecodeChannels(bits, channel.pos, total, checked, left - 1, Append(done, channel))

DecodeChannels(bits, pos, total, checked, left, done) ==
    IF left = 0 THEN [ok |-> TRUE, channels |-> done]
    ELSE ChannelDecoded(bits, total, checked, left, done,
                        DecodeChannel(bits, pos, total, checked))

\* The final loop over (x, y): pixel (x, y) is set to [r, g, b, 255].
Picture(width, height, decoded) ==
    IF ~decoded.ok THEN NoPicture
    ELSE [panic |-> FALSE, width |-> width, height |-> height,
          pixels |-> [p \in (0..(width - 1)) \X (0..(height - 1)) |->
                        LET i == PixelIndex(p[1], p[2], width)
                        IN  <<decoded.channels[3].buffer[i + 1],
                              decoded.channels[2].buffer[i + 1],
                              decoded.channels[1].buffer[i + 1], 255>>],
          chunks |-> <<decoded.channels[1].chunks, decoded.channels[2].chunks,
                       decoded.channels[3].chunks>>]

decode_spb(buffer, checked) ==
    LET bits == UnpackBits(buffer)
        w == ReadInt(bits, 0, 16)
        h == ReadInt(bits, w.pos, 16)
    IN  IF ~w.ok \/ ~h.ok THEN NoPicture
        ELSE IF RunsOffStream(w.value, h.value, Len(bits)) THEN NoPicture
        ELSE Picture(w.value, h.value,
                     DecodeChannels(bits, h.pos, w.value * h.value, checked, 3, <<>>))

(***************************************************************************)
(* lib.rs: default_keytable and create_keytable.                           *)
(***************************************************************************)
TableSize == 256

default_keytable == [k \in 1..TableSize |-> k - 1]

\* "for table_val in table": does any of the 256 slots hold byte_read?
InTable(table, byte_read) == \E k \in 1..TableSize : table[k] = byte_read

\* The table after j iterations of the loop labelled 'sequence that started
\* at buffer index i: slot k < j holds buffer[i + k].
StoredPrefix(buffer, table, i, j) ==
    [k \in 1..TableSize |-> IF k <= j THEN buffer[i + k] ELSE table[k]]

\* The loop labelled 'sequence, started at buffer index i: it stores bytes
\* until the buffer ends or the next byte is already in the table (break);
\* [table, panic], panic being the out-of-bounds store table[256].
ScanSequence(buffer, table, i) ==
    LET Stops(j) ==
            \/ i + j >= Len(buffer)
            \/ InTable(StoredPrefix(buffer, table, i, j), buffer[i + j + 1])
            \/ j >= TableSize
        stop == CHOOSE j \in 0..TableSize :
                    Stops(j) /\ \A h \in 0..(j - 1) : ~Stops(h)
    IN  [table |-> StoredPrefix(buffer, table, i, stop),
         panic |-> /\ stop >= TableSize
                   /\ i + stop < Len(buffer)
                   /\ ~InTable(StoredPrefix(buffer, table, i, stop), buffer[i + stop + 1])]

\* One iteration of the outer loop "for i in 0..buffer.len()": found_table
\* is reset at its top and nothing in the body sets it.
ScanIteration(buffer, table, i) ==
    LET found_table == FALSE
        scanned == ScanSequence(buffer, table, i)
    IN  [table |-> scanned.table, found_table |-> found_table, panic |-> scanned.panic]

\* Iterations lo .. hi - 1 of the outer loop, in order; the loop is left at a
\* panic and by the break on found_table.
RECURSIVE ScanBuffer(_, _, _, _)
ScanBuffer(buffer, table, lo, hi) ==
    IF lo >= hi THEN [table |-> table, found_table |-> FALSE, panic |-> FALSE]
    ELSE IF hi = lo + 1 THEN ScanIteration(buffer, table, lo)
    ELSE LET mid == (lo + hi) \div 2
             first == ScanBuffer(buffer, table, lo, mid)
         IN  IF first.panic \/ first.found_table THEN first
             ELSE ScanBuffer(buffer, first.table, mid, hi)

\* create_keytable(file) on the file's bytes: [panic, table].
create_keytable(buffer) ==
    LET scan == ScanBuffer(buffer, [k \in 1..TableSize |-> 0], 0, Len(buffer))
    IN  [panic |-> scan.panic \/ ~scan.found_table, table |-> scan.table]

(***************************************************************************)
(* archive.rs: FileHelper.  A helper is [file, cursor, position, key_table]*)
(* where file is the content of the underlying stream, cursor the stream's *)
(* own offset and position the field the helper tracks.  Operations that   *)
(* can panic return [ok, fh, value].                                       *)
(***************************************************************************)
U16_MAX == 65535

\* The model checker's integers end at 2^31 - 1.  A u32 or usize quantity of
\* 2^31 or more is held as Huge; its bytes on disk stay exact.
Huge == 65535 * 32768 + 32767

SatAdd(a, b) == IF a >= Huge - b THEN Huge ELSE a + b

\* The longest buffer the model lets read_slice build.
MaxSlice == 4096

NewFileHelper(file, key_table) ==
    [file |-> file, cursor |-> 0, position |-> 0, key_table |-> key_table]

\* value.to_be_bytes() of an n-byte unsigned integer (the `as` cast truncates;
\* a negative value stands for the wrapped difference value + 2^(8n)).
RECURSIVE BytesBE(_, _)
BytesBE(value, n) ==
    IF n = 0 THEN <<>> ELSE Append(BytesBE(value \div 256, n - 1), value % 256)

RECURSIVE FromBEExact(_)
FromBEExact(bytes) ==
    IF bytes = <<>> THEN 0
    ELSE 256 * FromBEExact(SubSeq(bytes, 1, Len(bytes) - 1)) + bytes[Len(bytes)]

\* from_be_bytes of at most four bytes.
FromBE(bytes) ==
    IF Len(bytes) = 4 /\ bytes[1] >= 128 THEN Huge ELSE FromBEExact(bytes)

FromLE(bytes) == FromBE(Reverse(bytes))

\* write_all at the cursor of a seekable file: bytes are overwritten or
\* appended, a gap behind the old end reads back as zeros.
WriteAt(file, cursor, buffer) ==
    IF buffer = <<>> THEN file
    ELSE [k \in 1..Max(Len(file), cursor + Len(buffer)) |->
            IF k > cursor /\ k <= cursor + Len(buffer) THEN buffer[k - cursor]
            ELSE IF k <= Len(file) THEN file[k]
            ELSE 0]

\* Through the key table: key_table[byte] (the table is 1-indexed here).
Substitute(key_table, bytes) == [k \in 1..Len(bytes) |-> key_table[bytes[k] + 1]]

\* A write_buffer that substitutes the bytes through the key table first.
WriteBufferKeyed(fh, buffer) ==
    [fh EXCEPT !.file = WriteAt(fh.file, fh.cursor, Substitute(fh.key_table, buffer)),
               !.cursor = @ + Len(buffer),
               !.position = @ + Len(buffer)]

write_buffer(fh, buffer) ==
    [fh EXCEPT !.file = WriteAt(fh.file, fh.cursor, buffer),
               !.cursor = @ + Len(buffer),
               !.position = @ + Len(buffer)]

write_u8(fh, value) == write_buffer(fh, BytesBE(value, 1))

write_u16_be(fh, value) == write_buffer(fh, BytesBE(value, 2))

write_u32_be(fh, value) == write_buffer(fh, BytesBE(value, 4))

\* seek(SeekFrom::Start(pos)).
seek(fh, pos) == [fh EXCEPT !.cursor = pos, !.position = pos]

\* write_file: pump the source reader to its end.
write_file(fh, src) == write_buffer(fh, src)

\* read_buffer::<N>: read_exact, substitute, position += N.
read_buffer(fh, n) ==
    IF fh.cursor + n > Len(fh.file) THEN [ok |-> FALSE, fh |-> fh, value |-> <<>>]
    ELSE [ok |-> TRUE,
          fh |-> [fh EXCEPT !.cursor = @ + n, !.position = @ + n],
          value |-> Substitute(fh.key_table, SubSeq(fh.file, fh.cursor + 1, fh.cursor + n))]

\* from_be_bytes / from_le_bytes of what read_buffer returned: the value,
\* and for the u32 sums its two 16-bit halves.
NumberOf(r, little_endian) ==
    LET be == IF little_endian THEN Reverse(r.value) ELSE r.value
    IN  [ok |-> r.ok, fh |-> r.fh, value |-> FromBE(be),
         hi |-> IF Len(be) = 4 THEN FromBEExact(SubSeq(be, 1, 2)) ELSE 0,
         lo |-> IF Len(be) = 4 THEN FromBEExact(SubSeq(be, 3, 4)) ELSE FromBEExact(be)]

\* A fixed-width read.
ReadNumber(fh, n, little_endian) == NumberOf(read_buffer(fh, n), little_endian)

read_u8(fh) == ReadNumber(fh, 1, FALSE)

read_u16_be(fh) == ReadNumber(fh, 2, FALSE)

read_u32_be(fh) == ReadNumber(fh, 4, FALSE)

read_u32_le(fh) == ReadNumber(fh, 4, TRUE)

\* Bytes read one read_u8 at a time up to a terminator byte, which is
\* consumed: the bytes from the cursor on, through the key table, up to the
\* first terminator.  Without one the read_u8 at the end of the file panics.
ReadUntil(fh, terminator, buffer) ==
    LET rest == Substitute(fh.key_table, SubSeq(fh.file, fh.cursor + 1, Len(fh.file)))
        hits == {j \in 1..Len(rest) : rest[j] = terminator}
        taken == IF hits = {} THEN Len(rest) ELSE CHOOSE j \in hits : \A h \in hits : j <= h
    IN  [ok |-> hits # {},
         fh |-> [fh EXCEPT !.cursor = @ + taken, !.position = @ + taken],
         value |-> buffer \o SubSeq(rest, 1, IF hits = {} THEN taken ELSE taken - 1)]

(***************************************************************************)
(* encoding_rs behind SHIFT_JIS.decode and SHIFT_JIS.encode: the Shift_JIS *)
(* decoder and encoder of the Encoding Standard over index jis0208, and    *)
(* the UTF-8 and UTF-16 decoders decode() hands the bytes to when they     *)
(* open with a byte order mark.  Text is a sequence of code points.        *)
(***************************************************************************)
\* What a malformed sequence decodes to.
REPLACEMENT_CHARACTER == 65533

\* index jis0208 by pointer, 0 where the index has no entry: pointers
\* 0..8835 and 10716..11103.  Between the two lie the user-defined
\* characters, which have no table.
Jis0208Low == <<
    12288, 12289, 12290, 65292, 65294, 12539, 65306, 65307, 65311, 65281, 12443, 12444, 180, 65344, 168, 65342,
    65507, 65343, 12541, 12542, 12445, 12446, 12291, 20189, 12293, 12294, 12295, 12540, 8213, 8208, 65295, 65340,
    65374, 8741, 65372, 8230, 8229, 8216, 8217, 8220, 8221, 65288, 65289, 12308, 12309, 65339, 65341, 65371,
    65373, 12296, 12297, 12298, 12299, 12300, 12301, 12302, 12303, 12304, 12305, 65291, 65293, 177, 215, 247,
    65309, 8800, 65308, 65310, 8806, 8807, 8734, 8756, 9794, 9792, 176, 8242, 8243, 8451, 65509, 65284,
    65504, 65505, 65285, 65283, 65286, 65290, 65312, 167, 9734, 9733, 9675, 9679, 9678, 9671, 9670, 9633,
    9632, 9651, 9650, 9661, 9660, 8251, 12306, 8594, 8592, 8593, 8595, 12307, 0, 0, 0, 0,
    0, 0, 0, 0, 0, 0, 0, 8712, 8715, 8838, 8839, 8834, 8835, 8746, 8745, 0,
    0, 0, 0, 0, 0, 0, 0, 8743, 8744, 65506, 8658, 8660, 8704, 8707, 0, 0,
    0, 0, 0, 0, 0, 0, 0, 0, 0, 8736, 8869, 8978, 8706, 8711, 8801, 8786,
    8810, 8811, 8730, 8765, 8733, 8757, 8747, 8748, 0, 0, 0, 0, 0, 0, 0, 8491,
    8240, 9839, 9837, 9834, 8224, 8225, 182, 0, 0, 0, 0, 9711, 0, 0, 0, 0,
    0, 0, 0, 0, 0, 0, 0, 0, 0, 0, 0, 65296, 65297, 65298, 65299, 65300,
    65301, 65302, 65303, 65304, 65305, 0, 0, 0, 0, 0, 0, 0, 65313, 65314, 65315, 65316,
    65317, 65318, 65319, 65320, 65321, 65322, 65323, 65324, 65325, 65326, 65327, 65328, 65329, 65330, 65331, 65332,
    65333, 65334, 65335, 65336, 65337, 65338, 0, 0, 0, 0, 0, 0, 65345, 65346, 65347, 65348,
    65349, 65350, 65351, 65352, 65353, 65354, 65355, 65356, 65357, 65358, 65359, 65360, 65361, 65362, 65363, 65364,
    65365, 65366, 65367, 65368, 65369, 65370, 0, 0, 0, 0, 12353, 12354, 12355, 12356, 12357, 12358,
    12359, 12360, 12361, 12362, 12363, 12364, 12365, 12366, 12367, 12368, 12369, 12370, 12371, 12372, 12373, 12374,
    12375, 12376, 12377, 12378, 12379, 12380, 12381, 12382, 12383, 12384, 12385, 12386, 12387, 12388, 12389, 12390,
    12391, 12392, 12393, 12394, 12395, 12396, 12397, 12398, 12399, 12400, 12401, 12402, 12403, 12404, 12405, 12406,
    12407, 12408, 12409, 12410, 12411, 12412, 12413, 12414, 12415, 12416, 12417, 12418, 12419, 12420, 12421, 12422,
    12423, 12424, 12425, 12426, 12427, 12428, 12429, 12430, 12431, 12432, 12433, 12434, 12435, 0, 0, 0,
    0, 0, 0, 0, 0, 0, 0, 0, 12449, 12450, 12451, 12452, 12453, 12454, 12455, 12456,
    12457, 12458, 12459, 12460, 12461, 12462, 12463, 12464, 12465, 12466, 12467, 12468, 12469, 12470, 12471, 12472,
    12473, 12474, 12475, 12476, 12477, 12478, 12479, 12480, 12481, 12482, 12483, 12484, 12485, 12486, 12487, 12488,
    12489, 12490, 12491, 12492, 12493, 12494, 12495, 12496, 12497, 12498, 12499, 12500, 12501, 12502, 12503, 12504,
    12505, 12506, 12507, 12508, 12509, 12510, 12511, 12512, 12513, 12514, 12515, 12516, 12517, 12518, 12519, 12520,
    12521, 12522, 12523, 12524, 12525, 12526, 12527, 12528, 12529, 12530, 12531, 12532, 12533, 12534, 0, 0,
    0, 0, 0, 0, 0, 0, 913, 914, 915, 916, 917, 918, 919, 920, 921, 922,
    923, 924, 925, 926, 927, 928, 929, 931, 932, 933, 934, 935, 936, 937, 0, 0,
    0, 0, 0, 0, 0, 0, 945, 946, 947, 948, 949, 950, 951, 952, 953, 954,
    955, 956, 957, 958, 959, 960, 961, 963, 964, 965, 966, 967, 968, 969, 0, 0,
    0, 0, 0, 0, 0, 0, 0, 0, 0, 0, 0, 0, 0, 0, 0, 0,
    0, 0, 0, 0, 0, 0, 0, 0, 0, 0, 0, 0, 0, 0, 0, 0,
    0, 0, 0, 0, 1040, 1041, 1042, 1043, 1044, 1045, 1025, 1046, 1047, 1048, 1049, 1050,
    1051, 1052, 1053, 1054, 1055, 1056, 1057, 1058, 1059, 1060, 1061, 1062, 1063, 1064, 1065, 1066,
    1067, 1068, 1069, 1070, 1071, 0, 0, 0, 0, 0, 0, 0, 0, 0, 0, 0,
    0, 0, 0, 0, 1072, 1073, 1074, 1075, 1076, 1077, 1105, 1078, 1079, 1080, 1081, 1082,
    1083, 1084, 1085, 1086, 1087, 1088, 1089, 1090, 1091, 1092, 1093, 1094, 1095, 1096, 1097, 1098,
    1099, 1100, 1101, 1102, 1103, 0, 0, 0, 0, 0, 0, 0, 0, 0, 0, 0,
    0, 0, 9472, 9474, 9484, 9488, 9496, 9492, 9500, 9516, 9508, 9524, 9532, 9473, 9475, 9487,
    9491, 9499, 9495, 9507, 9523, 9515, 9531, 9547, 9504, 9519, 9512, 9527, 9535, 9501, 9520, 9509,
    9528, 9538, 0, 0, 0, 0, 0, 0, 0, 0, 0, 0, 0, 0, 0, 0,
    0, 0, 0, 0, 0, 0, 0, 0, 0, 0, 0, 0, 0, 0, 0, 0,
    0, 0, 0, 0, 0, 0, 0, 0, 0, 0, 0, 0, 0, 0, 0, 0,
    0, 0, 0, 0, 0, 0, 0, 0, 0, 0, 0, 0, 0, 0, 0, 0,
    0, 0, 0, 0, 0, 0, 0, 0, 0, 0, 0, 0, 0, 0, 0, 0,
    0, 0, 0, 0, 0, 0, 0, 0, 0, 0, 0, 0, 0, 0, 0, 0,
    0, 0, 0, 0, 0, 0, 0, 0, 0, 0, 0, 0, 0, 0, 0, 0,
    0, 0, 0, 0, 0, 0, 0, 0, 0, 0, 0, 0, 0, 0, 0, 0,
    0, 0, 0, 0, 0, 0, 0, 0, 0, 0, 0, 0, 0, 0, 0, 0,
    0, 0, 0, 0, 0, 0, 0, 0, 0, 0, 0, 0, 0, 0, 0, 0,
    0, 0, 0, 0, 0, 0, 0, 0, 0, 0, 0, 0, 0, 0, 0, 0,
    0, 0, 0, 0, 0, 0, 0, 0, 0, 0, 0, 0, 0, 0, 0, 0,
    0, 0, 0, 0, 0, 0, 0, 0, 0, 0, 0, 0, 0, 0, 0, 0,
    0, 0, 0, 0, 0, 0, 0, 0, 0, 0, 0, 0, 0, 0, 0, 0,
    0, 0, 0, 0, 0, 0, 0, 0, 0, 0, 0, 0, 0, 0, 0, 0,
    0, 0, 0, 0, 0, 0, 0, 0, 0, 0, 0, 0, 0, 0, 0, 0,
    0, 0, 0, 0, 0, 0, 0, 0, 0, 0, 0, 0, 0, 0, 0, 0,
    0, 0, 0, 0, 0, 0, 0, 0, 0, 0, 0, 0, 0, 0, 0, 0,
    0, 0, 0, 0, 0, 0, 0, 0, 0, 0, 0, 0, 0, 0, 0, 0,
    0, 0, 0, 0, 0, 0, 0, 0, 0, 0, 0, 0, 0, 0, 0, 0,
    0, 0, 0, 0, 0, 0, 0, 0, 0, 0, 0, 0, 0, 0, 0, 0,
    0, 0, 0, 0, 0, 0, 0, 0, 0, 0, 0, 0, 0, 0, 0, 0,
    0, 0, 0, 0, 0, 0, 0, 0, 0, 0, 0, 0, 0, 0, 0, 0,
    0, 0, 0, 0, 0, 0, 0, 0, 0, 0, 0, 0, 0, 0, 0, 0,
    0, 0, 0, 0, 0, 0, 0, 0, 0, 0, 0, 0, 0, 0, 0, 0,
    0, 0, 0, 0, 0, 0, 0, 0, 0, 0, 0, 0, 0, 0, 0, 0,
    0, 0, 0, 0, 0, 0, 0, 0, 0, 0, 0, 0, 0, 0, 0, 0,
    0, 0, 0, 0, 0, 0, 0, 0, 9312, 9313, 9314, 9315, 9316, 9317, 9318, 9319,
    9320, 9321, 9322, 9323, 9324, 9325, 9326, 9327, 9328, 9329, 9330, 9331, 8544, 8545, 8546, 8547,
    8548, 8549, 8550, 8551, 8552, 8553, 0, 13129, 13076, 13090, 13133, 13080, 13095, 13059, 13110, 13137,
    13143, 13069, 13094, 13091, 13099, 13130, 13115, 13212, 13213, 13214, 13198, 13199, 13252, 13217, 0, 0,
    0, 0, 0, 0, 0, 0, 13179, 12317, 12319, 8470, 13261, 8481, 12964, 12965, 12966, 12967,
    12968, 12849, 12850, 12857, 13182, 13181, 13180, 8786, 8801, 8747, 8750, 8721, 8730, 8869, 8736, 8735,
    8895, 8757, 8745, 8746, 0, 0, 0, 0, 0, 0, 0, 0, 0, 0, 0, 0,
    0, 0, 0, 0, 0, 0, 0, 0, 0, 0, 0, 0, 0, 0, 0, 0,
    0, 0, 0, 0, 0, 0, 0, 0, 0, 0, 0, 0, 0, 0, 0, 0,
    0, 0, 0, 0, 0, 0, 0, 0, 0, 0, 0, 0, 0, 0, 0, 0,
    0, 0, 0, 0, 0, 0, 0, 0, 0, 0, 0, 0, 0, 0, 0, 0,
    0, 0, 0, 0, 0, 0, 0, 0, 0, 0, 0, 0, 0, 0, 0, 0,
    0, 0, 0, 0, 0, 0, 0, 0, 0, 0, 0, 0, 0, 0, 0, 0,
    0, 0, 0, 0, 0, 0, 0, 0, 0, 0, 0, 0, 0, 0, 0, 0,
    0, 0, 0, 0, 0, 0, 0, 0, 0, 0, 0, 0, 0, 0, 0, 0,
    0, 0, 0, 0, 0, 0, 0, 0, 0, 0, 0, 0, 0, 0, 0, 0,
    0, 0, 0, 0, 0, 0, 0, 0, 0, 0, 0, 0, 0, 0, 0, 0,
    0, 0, 0, 0, 0, 0, 0, 0, 0, 0, 0, 0, 0, 0, 0, 0,
    0, 0, 20124, 21782, 23043, 38463, 21696, 24859, 25384, 23030, 36898, 33909, 33564, 31312, 24746, 25569,
    28197, 26093, 33894, 33446, 39925, 26771, 22311, 26017, 25201, 23451, 22992, 34427, 39156, 32098, 32190, 39822,
    25110, 31903, 34999, 23433, 24245, 25353, 26263, 26696, 38343, 38797, 26447, 20197, 20234, 20301, 20381, 20553,
    22258, 22839, 22996, 23041, 23561, 24799, 24847, 24944, 26131, 26885, 28858, 30031, 30064, 31227, 32173, 32239,
    32963, 33806, 34915, 35586, 36949, 36986, 21307, 20117, 20133, 22495, 32946, 37057, 30959, 19968, 22769, 28322,
    36920, 31282, 33576, 33419, 39983, 20801, 21360, 21693, 21729, 22240, 23035, 24341, 39154, 28139, 32996, 34093,
    38498, 38512, 38560, 38907, 21515, 21491, 23431, 28879, 32701, 36802, 38632, 21359, 40284, 31418, 19985, 30867,
    33276, 28198, 22040, 21764, 27421, 34074, 39995, 23013, 21417, 28006, 29916, 38287, 22082, 20113, 36939, 38642,
    33615, 39180, 21473, 21942, 23344, 24433, 26144, 26355, 26628, 27704, 27891, 27945, 29787, 30408, 31310, 38964,
    33521, 34907, 35424, 37613, 28082, 30123, 30410, 39365, 24742, 35585, 36234, 38322, 27022, 21421, 20870, 22290,
    22576, 22852, 23476, 24310, 24616, 25513, 25588, 27839, 28436, 28814, 28948, 29017, 29141, 29503, 32257, 33398,
    33489, 34199, 36960, 37467, 40219, 22633, 26044, 27738, 29989, 20985, 22830, 22885, 24448, 24540, 25276, 26106,
    27178, 27431, 27572, 29579, 32705, 35158, 40236, 40206, 40644, 23713, 27798, 33659, 20740, 23627, 25014, 33222,
    26742, 29281, 20057, 20474, 21368, 24681, 28201, 31311, 38899, 19979, 21270, 20206, 20309, 20285, 20385, 20339,
    21152, 21487, 22025, 22799, 23233, 23478, 23521, 31185, 26247, 26524, 26550, 27468, 27827, 28779, 29634, 31117,
    31166, 31292, 31623, 33457, 33499, 33540, 33655, 33775, 33747, 34662, 35506, 22057, 36008, 36838, 36942, 38686,
    34442, 20420, 23784, 25105, 29273, 30011, 33253, 33469, 34558, 36032, 38597, 39187, 39381, 20171, 20250, 35299,
    22238, 22602, 22730, 24315, 24555, 24618, 24724, 24674, 25040, 25106, 25296, 25913, 39745, 26214, 26800, 28023,
    28784, 30028, 30342, 32117, 33445, 34809, 38283, 38542, 35997, 20977, 21182, 22806, 21683, 23475, 23830, 24936,
    27010, 28079, 30861, 33995, 34903, 35442, 37799, 39608, 28012, 39336, 34521, 22435, 26623, 34510, 37390, 21123,
    22151, 21508, 24275, 25313, 25785, 26684, 26680, 27579, 29554, 30906, 31339, 35226, 35282, 36203, 36611, 37101,
    38307, 38548, 38761, 23398, 23731, 27005, 38989, 38990, 25499, 31520, 27179, 27263, 26806, 39949, 28511, 21106,
    21917, 24688, 25324, 27963, 28167, 28369, 33883, 35088, 36676, 19988, 39993, 21494, 26907, 27194, 38788, 26666,
    20828, 31427, 33970, 37340, 37772, 22107, 40232, 26658, 33541, 33841, 31909, 21000, 33477, 29926, 20094, 20355,
    20896, 23506, 21002, 21208, 21223, 24059, 21914, 22570, 23014, 23436, 23448, 23515, 24178, 24185, 24739, 24863,
    24931, 25022, 25563, 25954, 26577, 26707, 26874, 27454, 27475, 27735, 28450, 28567, 28485, 29872, 29976, 30435,
    30475, 31487, 31649, 31777, 32233, 32566, 32752, 32925, 33382, 33694, 35251, 35532, 36011, 36996, 37969, 38291,
    38289, 38306, 38501, 38867, 39208, 33304, 20024, 21547, 23736, 24012, 29609, 30284, 30524, 23721, 32747, 36107,
    38593, 38929, 38996, 39000, 20225, 20238, 21361, 21916, 22120, 22522, 22855, 23305, 23492, 23696, 24076, 24190,
    24524, 25582, 26426, 26071, 26082, 26399, 26827, 26820, 27231, 24112, 27589, 27671, 27773, 30079, 31048, 23395,
    31232, 32000, 24509, 35215, 35352, 36020, 36215, 36556, 36637, 39138, 39438, 39740, 20096, 20605, 20736, 22931,
    23452, 25135, 25216, 25836, 27450, 29344, 30097, 31047, 32681, 34811, 35516, 35696, 25516, 33738, 38816, 21513,
    21507, 21931, 26708, 27224, 35440, 30759, 26485, 40653, 21364, 23458, 33050, 34384, 36870, 19992, 20037, 20167,
    20241, 21450, 21560, 23470, 24339, 24613, 25937, 26429, 27714, 27762, 27875, 28792, 29699, 31350, 31406, 31496,
    32026, 31998, 32102, 26087, 29275, 21435, 23621, 24040, 25298, 25312, 25369, 28192, 34394, 35377, 36317, 37624,
    28417, 31142, 39770, 20136, 20139, 20140, 20379, 20384, 20689, 20807, 31478, 20849, 20982, 21332, 21281, 21375,
    21483, 21932, 22659, 23777, 24375, 24394, 24623, 24656, 24685, 25375, 25945, 27211, 27841, 29378, 29421, 30703,
    33016, 33029, 33288, 34126, 37111, 37857, 38911, 39255, 39514, 20208, 20957, 23597, 26241, 26989, 23616, 26354,
    26997, 29577, 26704, 31873, 20677, 21220, 22343, 24062, 37670, 26020, 27427, 27453, 29748, 31105, 31165, 31563,
    32202, 33465, 33740, 34943, 35167, 35641, 36817, 37329, 21535, 37504, 20061, 20534, 21477, 21306, 29399, 29590,
    30697, 33510, 36527, 39366, 39368, 39378, 20855, 24858, 34398, 21936, 31354, 20598, 23507, 36935, 38533, 20018,
    27355, 37351, 23633, 23624, 25496, 31391, 27795, 38772, 36705, 31402, 29066, 38536, 31874, 26647, 32368, 26705,
    37740, 21234, 21531, 34219, 35347, 32676, 36557, 37089, 21350, 34952, 31041, 20418, 20670, 21009, 20804, 21843,
    22317, 29674, 22411, 22865, 24418, 24452, 24693, 24950, 24935, 25001, 25522, 25658, 25964, 26223, 26690, 28179,
    30054, 31293, 31995, 32076, 32153, 32331, 32619, 33550, 33610, 34509, 35336, 35427, 35686, 36605, 38938, 40335,
    33464, 36814, 39912, 21127, 25119, 25731, 28608, 38553, 26689, 20625, 27424, 27770, 28500, 31348, 32080, 34880,
    35363, 26376, 20214, 20537, 20518, 20581, 20860, 21048, 21091, 21927, 22287, 22533, 23244, 24314, 25010, 25080,
    25331, 25458, 26908, 27177, 29309, 29356, 29486, 30740, 30831, 32121, 30476, 32937, 35211, 35609, 36066, 36562,
    36963, 37749, 38522, 38997, 39443, 40568, 20803, 21407, 21427, 24187, 24358, 28187, 28304, 29572, 29694, 32067,
    33335, 35328, 35578, 38480, 20046, 20491, 21476, 21628, 22266, 22993, 23396, 24049, 24235, 24359, 25144, 25925,
    26543, 28246, 29392, 31946, 34996, 32929, 32993, 33776, 34382, 35463, 36328, 37431, 38599, 39015, 40723, 20116,
    20114, 20237, 21320, 21577, 21566, 23087, 24460, 24481, 24735, 26791, 27278, 29786, 30849, 35486, 35492, 35703,
    37264, 20062, 39881, 20132, 20348, 20399, 20505, 20502, 20809, 20844, 21151, 21177, 21246, 21402, 21475, 21521,
    21518, 21897, 22353, 22434, 22909, 23380, 23389, 23439, 24037, 24039, 24055, 24184, 24195, 24218, 24247, 24344,
    24658, 24908, 25239, 25304, 25511, 25915, 26114, 26179, 26356, 26477, 26657, 26775, 27083, 27743, 27946, 28009,
    28207, 28317, 30002, 30343, 30828, 31295, 31968, 32005, 32024, 32094, 32177, 32789, 32771, 32943, 32945, 33108,
    33167, 33322, 33618, 34892, 34913, 35611, 36002, 36092, 37066, 37237, 37489, 30783, 37628, 38308, 38477, 38917,
    39321, 39640, 40251, 21083, 21163, 21495, 21512, 22741, 25335, 28640, 35946, 36703, 40633, 20811, 21051, 21578,
    22269, 31296, 37239, 40288, 40658, 29508, 28425, 33136, 29969, 24573, 24794, 39592, 29403, 36796, 27492, 38915,
    20170, 22256, 22372, 22718, 23130, 24680, 25031, 26127, 26118, 26681, 26801, 28151, 30165, 32058, 33390, 39746,
    20123, 20304, 21449, 21766, 23919, 24038, 24046, 26619, 27801, 29811, 30722, 35408, 37782, 35039, 22352, 24231,
    25387, 20661, 20652, 20877, 26368, 21705, 22622, 22971, 23472, 24425, 25165, 25505, 26685, 27507, 28168, 28797,
    37319, 29312, 30741, 30758, 31085, 25998, 32048, 33756, 35009, 36617, 38555, 21092, 22312, 26448, 32618, 36001,
    20916, 22338, 38442, 22586, 27018, 32948, 21682, 23822, 22524, 30869, 40442, 20316, 21066, 21643, 25662, 26152,
    26388, 26613, 31364, 31574, 32034, 37679, 26716, 39853, 31545, 21273, 20874, 21047, 23519, 25334, 25774, 25830,
    26413, 27578, 34217, 38609, 30352, 39894, 25420, 37638, 39851, 30399, 26194, 19977, 20632, 21442, 23665, 24808,
    25746, 25955, 26719, 29158, 29642, 29987, 31639, 32386, 34453, 35715, 36059, 37240, 39184, 26028, 26283, 27531,
    20181, 20180, 20282, 20351, 21050, 21496, 21490, 21987, 22235, 22763, 22987, 22985, 23039, 23376, 23629, 24066,
    24107, 24535, 24605, 25351, 25903, 23388, 26031, 26045, 26088, 26525, 27490, 27515, 27663, 29509, 31049, 31169,
    31992, 32025, 32043, 32930, 33026, 33267, 35222, 35422, 35433, 35430, 35468, 35566, 36039, 36060, 38604, 39164,
    27503, 20107, 20284, 20365, 20816, 23383, 23546, 24904, 25345, 26178, 27425, 28363, 27835, 29246, 29885, 30164,
    30913, 31034, 32780, 32819, 33258, 33940, 36766, 27728, 40575, 24335, 35672, 40235, 31482, 36600, 23437, 38635,
    19971, 21489, 22519, 22833, 23241, 23460, 24713, 28287, 28422, 30142, 36074, 23455, 34048, 31712, 20594, 26612,
    33437, 23649, 34122, 32286, 33294, 20889, 23556, 25448, 36198, 26012, 29038, 31038, 32023, 32773, 35613, 36554,
    36974, 34503, 37034, 20511, 21242, 23610, 26451, 28796, 29237, 37196, 37320, 37675, 33509, 23490, 24369, 24825,
    20027, 21462, 23432, 25163, 26417, 27530, 29417, 29664, 31278, 33131, 36259, 37202, 39318, 20754, 21463, 21610,
    23551, 25480, 27193, 32172, 38656, 22234, 21454, 21608, 23447, 23601, 24030, 20462, 24833, 25342, 27954, 31168,
    31179, 32066, 32333, 32722, 33261, 33311, 33936, 34886, 35186, 35728, 36468, 36655, 36913, 37195, 37228, 38598,
    37276, 20160, 20303, 20805, 21313, 24467, 25102, 26580, 27713, 28171, 29539, 32294, 37325, 37507, 21460, 22809,
    23487, 28113, 31069, 32302, 31899, 22654, 29087, 20986, 34899, 36848, 20426, 23803, 26149, 30636, 31459, 33308,
    39423, 20934, 24490, 26092, 26991, 27529, 28147, 28310, 28516, 30462, 32020, 24033, 36981, 37255, 38918, 20966,
    21021, 25152, 26257, 26329, 28186, 24246, 32210, 32626, 26360, 34223, 34295, 35576, 21161, 21465, 22899, 24207,
    24464, 24661, 37604, 38500, 20663, 20767, 21213, 21280, 21319, 21484, 21736, 21830, 21809, 22039, 22888, 22974,
    23100, 23477, 23558, 23567, 23569, 23578, 24196, 24202, 24288, 24432, 25215, 25220, 25307, 25484, 25463, 26119,
    26124, 26157, 26230, 26494, 26786, 27167, 27189, 27836, 28040, 28169, 28248, 28988, 28966, 29031, 30151, 30465,
    30813, 30977, 31077, 31216, 31456, 31505, 31911, 32057, 32918, 33750, 33931, 34121, 34909, 35059, 35359, 35388,
    35412, 35443, 35937, 36062, 37284, 37478, 37758, 37912, 38556, 38808, 19978, 19976, 19998, 20055, 20887, 21104,
    22478, 22580, 22732, 23330, 24120, 24773, 25854, 26465, 26454, 27972, 29366, 30067, 31331, 33976, 35698, 37304,
    37664, 22065, 22516, 39166, 25325, 26893, 27542, 29165, 32340, 32887, 33394, 35302, 39135, 34645, 36785, 23611,
    20280, 20449, 20405, 21767, 23072, 23517, 23529, 24515, 24910, 25391, 26032, 26187, 26862, 27035, 28024, 28145,
    30003, 30137, 30495, 31070, 31206, 32051, 33251, 33455, 34218, 35242, 35386, 36523, 36763, 36914, 37341, 38663,
    20154, 20161, 20995, 22645, 22764, 23563, 29978, 23613, 33102, 35338, 36805, 38499, 38765, 31525, 35535, 38920,
    37218, 22259, 21416, 36887, 21561, 22402, 24101, 25512, 27700, 28810, 30561, 31883, 32736, 34928, 36930, 37204,
    37648, 37656, 38543, 29790, 39620, 23815, 23913, 25968, 26530, 36264, 38619, 25454, 26441, 26905, 33733, 38935,
    38592, 35070, 28548, 25722, 23544, 19990, 28716, 30045, 26159, 20932, 21046, 21218, 22995, 24449, 24615, 25104,
    25919, 25972, 26143, 26228, 26866, 26646, 27491, 28165, 29298, 29983, 30427, 31934, 32854, 22768, 35069, 35199,
    35488, 35475, 35531, 36893, 37266, 38738, 38745, 25993, 31246, 33030, 38587, 24109, 24796, 25114, 26021, 26132,
    26512, 30707, 31309, 31821, 32318, 33034, 36012, 36196, 36321, 36447, 30889, 20999, 25305, 25509, 25666, 25240,
    35373, 31363, 31680, 35500, 38634, 32118, 33292, 34633, 20185, 20808, 21315, 21344, 23459, 23554, 23574, 24029,
    25126, 25159, 25776, 26643, 26676, 27849, 27973, 27927, 26579, 28508, 29006, 29053, 26059, 31359, 31661, 32218,
    32330, 32680, 33146, 33307, 33337, 34214, 35438, 36046, 36341, 36984, 36983, 37549, 37521, 38275, 39854, 21069,
    21892, 28472, 28982, 20840, 31109, 32341, 33203, 31950, 22092, 22609, 23720, 25514, 26366, 26365, 26970, 29401,
    30095, 30094, 30990, 31062, 31199, 31895, 32032, 32068, 34311, 35380, 38459, 36961, 40736, 20711, 21109, 21452,
    21474, 20489, 21930, 22766, 22863, 29245, 23435, 23652, 21277, 24803, 24819, 25436, 25475, 25407, 25531, 25805,
    26089, 26361, 24035, 27085, 27133, 28437, 29157, 20105, 30185, 30456, 31379, 31967, 32207, 32156, 32865, 33609,
    33624, 33900, 33980, 34299, 35013, 36208, 36865, 36973, 37783, 38684, 39442, 20687, 22679, 24974, 33235, 34101,
    36104, 36896, 20419, 20596, 21063, 21363, 24687, 25417, 26463, 28204, 36275, 36895, 20439, 23646, 36042, 26063,
    32154, 21330, 34966, 20854, 25539, 23384, 23403, 23562, 25613, 26449, 36956, 20182, 22810, 22826, 27760, 35409,
    21822, 22549, 22949, 24816, 25171, 26561, 33333, 26965, 38464, 39364, 39464, 20307, 22534, 23550, 32784, 23729,
    24111, 24453, 24608, 24907, 25140, 26367, 27888, 28382, 32974, 33151, 33492, 34955, 36024, 36864, 36910, 38538,
    40667, 39899, 20195, 21488, 22823, 31532, 37261, 38988, 40441, 28381, 28711, 21331, 21828, 23429, 25176, 25246,
    25299, 27810, 28655, 29730, 35351, 37944, 28609, 35582, 33592, 20967, 34552, 21482, 21481, 20294, 36948, 36784,
    22890, 33073, 24061, 31466, 36799, 26842, 35895, 29432, 40008, 27197, 35504, 20025, 21336, 22022, 22374, 25285,
    25506, 26086, 27470, 28129, 28251, 28845, 30701, 31471, 31658, 32187, 32829, 32966, 34507, 35477, 37723, 22243,
    22727, 24382, 26029, 26262, 27264, 27573, 30007, 35527, 20516, 30693, 22320, 24347, 24677, 26234, 27744, 30196,
    31258, 32622, 33268, 34584, 36933, 39347, 31689, 30044, 31481, 31569, 33988, 36880, 31209, 31378, 33590, 23265,
    30528, 20013, 20210, 23449, 24544, 25277, 26172, 26609, 27880, 34411, 34935, 35387, 37198, 37619, 39376, 27159,
    28710, 29482, 33511, 33879, 36015, 19969, 20806, 20939, 21899, 23541, 24086, 24115, 24193, 24340, 24373, 24427,
    24500, 25074, 25361, 26274, 26397, 28526, 29266, 30010, 30522, 32884, 33081, 33144, 34678, 35519, 35548, 36229,
    36339, 37530, 38263, 38914, 40165, 21189, 25431, 30452, 26389, 27784, 29645, 36035, 37806, 38515, 27941, 22684,
    26894, 27084, 36861, 37786, 30171, 36890, 22618, 26626, 25524, 27131, 20291, 28460, 26584, 36795, 34086, 32180,
    37716, 26943, 28528, 22378, 22775, 23340, 32044, 29226, 21514, 37347, 40372, 20141, 20302, 20572, 20597, 21059,
    35998, 21576, 22564, 23450, 24093, 24213, 24237, 24311, 24351, 24716, 25269, 25402, 25552, 26799, 27712, 30855,
    31118, 31243, 32224, 33351, 35330, 35558, 36420, 36883, 37048, 37165, 37336, 40718, 27877, 25688, 25826, 25973,
    28404, 30340, 31515, 36969, 37841, 28346, 21746, 24505, 25764, 36685, 36845, 37444, 20856, 22635, 22825, 23637,
    24215, 28155, 32399, 29980, 36028, 36578, 39003, 28857, 20253, 27583, 28593, 30000, 38651, 20814, 21520, 22581,
    22615, 22956, 23648, 24466, 26007, 26460, 28193, 30331, 33759, 36077, 36884, 37117, 37709, 30757, 30778, 21162,
    24230, 22303, 22900, 24594, 20498, 20826, 20908, 20941, 20992, 21776, 22612, 22616, 22871, 23445, 23798, 23947,
    24764, 25237, 25645, 26481, 26691, 26812, 26847, 30423, 28120, 28271, 28059, 28783, 29128, 24403, 30168, 31095,
    31561, 31572, 31570, 31958, 32113, 21040, 33891, 34153, 34276, 35342, 35588, 35910, 36367, 36867, 36879, 37913,
    38518, 38957, 39472, 38360, 20685, 21205, 21516, 22530, 23566, 24999, 25758, 27934, 30643, 31461, 33012, 33796,
    36947, 37509, 23776, 40199, 21311, 24471, 24499, 28060, 29305, 30563, 31167, 31716, 27602, 29420, 35501, 26627,
    27233, 20984, 31361, 26932, 23626, 40182, 33515, 23493, 37193, 28702, 22136, 23663, 24775, 25958, 27788, 35930,
    36929, 38931, 21585, 26311, 37389, 22856, 37027, 20869, 20045, 20970, 34201, 35598, 28760, 25466, 37707, 26978,
    39348, 32260, 30071, 21335, 26976, 36575, 38627, 27741, 20108, 23612, 24336, 36841, 21250, 36049, 32905, 34425,
    24319, 26085, 20083, 20837, 22914, 23615, 38894, 20219, 22922, 24525, 35469, 28641, 31152, 31074, 23527, 33905,
    29483, 29105, 24180, 24565, 25467, 25754, 29123, 31896, 20035, 24316, 20043, 22492, 22178, 24745, 28611, 32013,
    33021, 33075, 33215, 36786, 35223, 34468, 24052, 25226, 25773, 35207, 26487, 27874, 27966, 29750, 30772, 23110,
    32629, 33453, 39340, 20467, 24259, 25309, 25490, 25943, 26479, 30403, 29260, 32972, 32954, 36649, 37197, 20493,
    22521, 23186, 26757, 26995, 29028, 29437, 36023, 22770, 36064, 38506, 36889, 34687, 31204, 30695, 33833, 20271,
    21093, 21338, 25293, 26575, 27850, 30333, 31636, 31893, 33334, 34180, 36843, 26333, 28448, 29190, 32283, 33707,
    39361, 40614, 20989, 31665, 30834, 31672, 32903, 31560, 27368, 24161, 32908, 30033, 30048, 20843, 37474, 28300,
    30330, 37271, 39658, 20240, 32624, 25244, 31567, 38309, 40169, 22138, 22617, 34532, 38588, 20276, 21028, 21322,
    21453, 21467, 24070, 25644, 26001, 26495, 27710, 27726, 29256, 29359, 29677, 30036, 32321, 33324, 34281, 36009,
    31684, 37318, 29033, 38930, 39151, 25405, 26217, 30058, 30436, 30928, 34115, 34542, 21290, 21329, 21542, 22915,
    24199, 24444, 24754, 25161, 25209, 25259, 26000, 27604, 27852, 30130, 30382, 30865, 31192, 32203, 32631, 32933,
    34987, 35513, 36027, 36991, 38750, 39131, 27147, 31800, 20633, 23614, 24494, 26503, 27608, 29749, 30473, 32654,
    40763, 26570, 31255, 21305, 30091, 39661, 24422, 33181, 33777, 32920, 24380, 24517, 30050, 31558, 36924, 26727,
    23019, 23195, 32016, 30334, 35628, 20469, 24426, 27161, 27703, 28418, 29922, 31080, 34920, 35413, 35961, 24287,
    25551, 30149, 31186, 33495, 37672, 37618, 33948, 34541, 39981, 21697, 24428, 25996, 27996, 28693, 36007, 36051,
    38971, 25935, 29942, 19981, 20184, 22496, 22827, 23142, 23500, 20904, 24067, 24220, 24598, 25206, 25975, 26023,
    26222, 28014, 29238, 31526, 33104, 33178, 33433, 35676, 36000, 36070, 36212, 38428, 38468, 20398, 25771, 27494,
    33310, 33889, 34154, 37096, 23553, 26963, 39080, 33914, 34135, 20239, 21103, 24489, 24133, 26381, 31119, 33145,
    35079, 35206, 28149, 24343, 25173, 27832, 20175, 29289, 39826, 20998, 21563, 22132, 22707, 24996, 25198, 28954,
    22894, 31881, 31966, 32027, 38640, 25991, 32862, 19993, 20341, 20853, 22592, 24163, 24179, 24330, 26564, 20006,
    34109, 38281, 38491, 31859, 38913, 20731, 22721, 30294, 30887, 21029, 30629, 34065, 31622, 20559, 22793, 29255,
    31687, 32232, 36794, 36820, 36941, 20415, 21193, 23081, 24321, 38829, 20445, 33303, 37610, 22275, 25429, 27497,
    29995, 35036, 36628, 31298, 21215, 22675, 24917, 25098, 26286, 27597, 31807, 33769, 20515, 20472, 21253, 21574,
    22577, 22857, 23453, 23792, 23791, 23849, 24214, 25265, 25447, 25918, 26041, 26379, 27861, 27873, 28921, 30770,
    32299, 32990, 33459, 33804, 34028, 34562, 35090, 35370, 35914, 37030, 37586, 39165, 40179, 40300, 20047, 20129,
    20621, 21078, 22346, 22952, 24125, 24536, 24537, 25151, 26292, 26395, 26576, 26834, 20882, 32033, 32938, 33192,
    35584, 35980, 36031, 37502, 38450, 21536, 38956, 21271, 20693, 21340, 22696, 25778, 26420, 29287, 30566, 31302,
    37350, 21187, 27809, 27526, 22528, 24140, 22868, 26412, 32763, 20961, 30406, 25705, 30952, 39764, 40635, 22475,
    22969, 26151, 26522, 27598, 21737, 27097, 24149, 33180, 26517, 39850, 26622, 40018, 26717, 20134, 20451, 21448,
    25273, 26411, 27819, 36804, 20397, 32365, 40639, 19975, 24930, 28288, 28459, 34067, 21619, 26410, 39749, 24051,
    31637, 23724, 23494, 34588, 28234, 34001, 31252, 33032, 22937, 31885, 27665, 30496, 21209, 22818, 28961, 29279,
    30683, 38695, 40289, 26891, 23167, 23064, 20901, 21517, 21629, 26126, 30431, 36855, 37528, 40180, 23018, 29277,
    28357, 20813, 26825, 32191, 32236, 38754, 40634, 25720, 27169, 33538, 22916, 23391, 27611, 29467, 30450, 32178,
    32791, 33945, 20786, 26408, 40665, 30446, 26466, 21247, 39173, 23588, 25147, 31870, 36016, 21839, 24758, 32011,
    38272, 21249, 20063, 20918, 22812, 29242, 32822, 37326, 24357, 30690, 21380, 24441, 32004, 34220, 35379, 36493,
    38742, 26611, 34222, 37971, 24841, 24840, 27833, 30290, 35565, 36664, 21807, 20305, 20778, 21191, 21451, 23461,
    24189, 24736, 24962, 25558, 26377, 26586, 28263, 28044, 29494, 29495, 30001, 31056, 35029, 35480, 36938, 37009,
    37109, 38596, 34701, 22805, 20104, 20313, 19982, 35465, 36671, 38928, 20653, 24188, 22934, 23481, 24248, 25562,
    25594, 25793, 26332, 26954, 27096, 27915, 28342, 29076, 29992, 31407, 32650, 32768, 33865, 33993, 35201, 35617,
    36362, 36965, 38525, 39178, 24958, 25233, 27442, 27779, 28020, 32716, 32764, 28096, 32645, 34746, 35064, 26469,
    33713, 38972, 38647, 27931, 32097, 33853, 37226, 20081, 21365, 23888, 27396, 28651, 34253, 34349, 35239, 21033,
    21519, 23653, 26446, 26792, 29702, 29827, 30178, 35023, 35041, 37324, 38626, 38520, 24459, 29575, 31435, 33870,
    25504, 30053, 21129, 27969, 28316, 29705, 30041, 30827, 31890, 38534, 31452, 40845, 20406, 24942, 26053, 34396,
    20102, 20142, 20698, 20001, 20940, 23534, 26009, 26753, 28092, 29471, 30274, 30637, 31260, 31975, 33391, 35538,
    36988, 37327, 38517, 38936, 21147, 32209, 20523, 21400, 26519, 28107, 29136, 29747, 33256, 36650, 38563, 40023,
    40607, 29792, 22593, 28057, 32047, 39006, 20196, 20278, 20363, 20919, 21169, 23994, 24604, 29618, 31036, 33491,
    37428, 38583, 38646, 38666, 40599, 40802, 26278, 27508, 21015, 21155, 28872, 35010, 24265, 24651, 24976, 28451,
    29001, 31806, 32244, 32879, 34030, 36899, 37676, 21570, 39791, 27347, 28809, 36034, 36335, 38706, 21172, 23105,
    24266, 24324, 26391, 27004, 27028, 28010, 28431, 29282, 29436, 31725, 32769, 32894, 34635, 37070, 20845, 40595,
    31108, 32907, 37682, 35542, 20525, 21644, 35441, 27498, 36036, 33031, 24785, 26528, 40434, 20121, 20120, 39952,
    35435, 34241, 34152, 26880, 28286, 30871, 33109, 0, 0, 0, 0, 0, 0, 0, 0, 0,
    0, 0, 0, 0, 0, 0, 0, 0, 0, 0, 0, 0, 0, 0, 0, 0,
    0, 0, 0, 0, 0, 0, 0, 0, 0, 0, 0, 0, 0, 0, 0, 0,
    0, 0, 24332, 19984, 19989, 20010, 20017, 20022, 20028, 20031, 20034, 20054, 20056, 20098, 20101, 35947,
    20106, 33298, 24333, 20110, 20126, 20127, 20128, 20130, 20144, 20147, 20150, 20174, 20173, 20164, 20166, 20162,
    20183, 20190, 20205, 20191, 20215, 20233, 20314, 20272, 20315, 20317, 20311, 20295, 20342, 20360, 20367, 20376,
    20347, 20329, 20336, 20369, 20335, 20358, 20374, 20760, 20436, 20447, 20430, 20440, 20443, 20433, 20442, 20432,
    20452, 20453, 20506, 20520, 20500, 20522, 20517, 20485, 20252, 20470, 20513, 20521, 20524, 20478, 20463, 20497,
    20486, 20547, 20551, 26371, 20565, 20560, 20552, 20570, 20566, 20588, 20600, 20608, 20634, 20613, 20660, 20658,
    20681, 20682, 20659, 20674, 20694, 20702, 20709, 20717, 20707, 20718, 20729, 20725, 20745, 20737, 20738, 20758,
    20757, 20756, 20762, 20769, 20794, 20791, 20796, 20795, 20799, 20800, 20818, 20812, 20820, 20834, 31480, 20841,
    20842, 20846, 20864, 20866, 22232, 20876, 20873, 20879, 20881, 20883, 20885, 20886, 20900, 20902, 20898, 20905,
    20906, 20907, 20915, 20913, 20914, 20912, 20917, 20925, 20933, 20937, 20955, 20960, 34389, 20969, 20973, 20976,
    20981, 20990, 20996, 21003, 21012, 21006, 21031, 21034, 21038, 21043, 21049, 21071, 21060, 21067, 21068, 21086,
    21076, 21098, 21108, 21097, 21107, 21119, 21117, 21133, 21140, 21138, 21105, 21128, 21137, 36776, 36775, 21164,
    21165, 21180, 21173, 21185, 21197, 21207, 21214, 21219, 21222, 39149, 21216, 21235, 21237, 21240, 21241, 21254,
    21256, 30008, 21261, 21264, 21263, 21269, 21274, 21283, 21295, 21297, 21299, 21304, 21312, 21318, 21317, 19991,
    21321, 21325, 20950, 21342, 21353, 21358, 22808, 21371, 21367, 21378, 21398, 21408, 21414, 21413, 21422, 21424,
    21430, 21443, 31762, 38617, 21471, 26364, 29166, 21486, 21480, 21485, 21498, 21505, 21565, 21568, 21548, 21549,
    21564, 21550, 21558, 21545, 21533, 21582, 21647, 21621, 21646, 21599, 21617, 21623, 21616, 21650, 21627, 21632,
    21622, 21636, 21648, 21638, 21703, 21666, 21688, 21669, 21676, 21700, 21704, 21672, 21675, 21698, 21668, 21694,
    21692, 21720, 21733, 21734, 21775, 21780, 21757, 21742, 21741, 21754, 21730, 21817, 21824, 21859, 21836, 21806,
    21852, 21829, 21846, 21847, 21816, 21811, 21853, 21913, 21888, 21679, 21898, 21919, 21883, 21886, 21912, 21918,
    21934, 21884, 21891, 21929, 21895, 21928, 21978, 21957, 21983, 21956, 21980, 21988, 21972, 22036, 22007, 22038,
    22014, 22013, 22043, 22009, 22094, 22096, 29151, 22068, 22070, 22066, 22072, 22123, 22116, 22063, 22124, 22122,
    22150, 22144, 22154, 22176, 22164, 22159, 22181, 22190, 22198, 22196, 22210, 22204, 22209, 22211, 22208, 22216,
    22222, 22225, 22227, 22231, 22254, 22265, 22272, 22271, 22276, 22281, 22280, 22283, 22285, 22291, 22296, 22294,
    21959, 22300, 22310, 22327, 22328, 22350, 22331, 22336, 22351, 22377, 22464, 22408, 22369, 22399, 22409, 22419,
    22432, 22451, 22436, 22442, 22448, 22467, 22470, 22484, 22482, 22483, 22538, 22486, 22499, 22539, 22553, 22557,
    22642, 22561, 22626, 22603, 22640, 27584, 22610, 22589, 22649, 22661, 22713, 22687, 22699, 22714, 22750, 22715,
    22712, 22702, 22725, 22739, 22737, 22743, 22745, 22744, 22757, 22748, 22756, 22751, 22767, 22778, 22777, 22779,
    22780, 22781, 22786, 22794, 22800, 22811, 26790, 22821, 22828, 22829, 22834, 22840, 22846, 31442, 22869, 22864,
    22862, 22874, 22872, 22882, 22880, 22887, 22892, 22889, 22904, 22913, 22941, 20318, 20395, 22947, 22962, 22982,
    23016, 23004, 22925, 23001, 23002, 23077, 23071, 23057, 23068, 23049, 23066, 23104, 23148, 23113, 23093, 23094,
    23138, 23146, 23194, 23228, 23230, 23243, 23234, 23229, 23267, 23255, 23270, 23273, 23254, 23290, 23291, 23308,
    23307, 23318, 23346, 23248, 23338, 23350, 23358, 23363, 23365, 23360, 23377, 23381, 23386, 23387, 23397, 23401,
    23408, 23411, 23413, 23416, 25992, 23418, 23424, 23427, 23462, 23480, 23491, 23495, 23497, 23508, 23504, 23524,
    23526, 23522, 23518, 23525, 23531, 23536, 23542, 23539, 23557, 23559, 23560, 23565, 23571, 23584, 23586, 23592,
    23608, 23609, 23617, 23622, 23630, 23635, 23632, 23631, 23409, 23660, 23662, 20066, 23670, 23673, 23692, 23697,
    23700, 22939, 23723, 23739, 23734, 23740, 23735, 23749, 23742, 23751, 23769, 23785, 23805, 23802, 23789, 23948,
    23786, 23819, 23829, 23831, 23900, 23839, 23835, 23825, 23828, 23842, 23834, 23833, 23832, 23884, 23890, 23886,
    23883, 23916, 23923, 23926, 23943, 23940, 23938, 23970, 23965, 23980, 23982, 23997, 23952, 23991, 23996, 24009,
    24013, 24019, 24018, 24022, 24027, 24043, 24050, 24053, 24075, 24090, 24089, 24081, 24091, 24118, 24119, 24132,
    24131, 24128, 24142, 24151, 24148, 24159, 24162, 24164, 24135, 24181, 24182, 24186, 40636, 24191, 24224, 24257,
    24258, 24264, 24272, 24271, 24278, 24291, 24285, 24282, 24283, 24290, 24289, 24296, 24297, 24300, 24305, 24307,
    24304, 24308, 24312, 24318, 24323, 24329, 24413, 24412, 24331, 24337, 24342, 24361, 24365, 24376, 24385, 24392,
    24396, 24398, 24367, 24401, 24406, 24407, 24409, 24417, 24429, 24435, 24439, 24451, 24450, 24447, 24458, 24456,
    24465, 24455, 24478, 24473, 24472, 24480, 24488, 24493, 24508, 24534, 24571, 24548, 24568, 24561, 24541, 24755,
    24575, 24609, 24672, 24601, 24592, 24617, 24590, 24625, 24603, 24597, 24619, 24614, 24591, 24634, 24666, 24641,
    24682, 24695, 24671, 24650, 24646, 24653, 24675, 24643, 24676, 24642, 24684, 24683, 24665, 24705, 24717, 24807,
    24707, 24730, 24708, 24731, 24726, 24727, 24722, 24743, 24715, 24801, 24760, 24800, 24787, 24756, 24560, 24765,
    24774, 24757, 24792, 24909, 24853, 24838, 24822, 24823, 24832, 24820, 24826, 24835, 24865, 24827, 24817, 24845,
    24846, 24903, 24894, 24872, 24871, 24906, 24895, 24892, 24876, 24884, 24893, 24898, 24900, 24947, 24951, 24920,
    24921, 24922, 24939, 24948, 24943, 24933, 24945, 24927, 24925, 24915, 24949, 24985, 24982, 24967, 25004, 24980,
    24986, 24970, 24977, 25003, 25006, 25036, 25034, 25033, 25079, 25032, 25027, 25030, 25018, 25035, 32633, 25037,
    25062, 25059, 25078, 25082, 25076, 25087, 25085, 25084, 25086, 25088, 25096, 25097, 25101, 25100, 25108, 25115,
    25118, 25121, 25130, 25134, 25136, 25138, 25139, 25153, 25166, 25182, 25187, 25179, 25184, 25192, 25212, 25218,
    25225, 25214, 25234, 25235, 25238, 25300, 25219, 25236, 25303, 25297, 25275, 25295, 25343, 25286, 25812, 25288,
    25308, 25292, 25290, 25282, 25287, 25243, 25289, 25356, 25326, 25329, 25383, 25346, 25352, 25327, 25333, 25424,
    25406, 25421, 25628, 25423, 25494, 25486, 25472, 25515, 25462, 25507, 25487, 25481, 25503, 25525, 25451, 25449,
    25534, 25577, 25536, 25542, 25571, 25545, 25554, 25590, 25540, 25622, 25652, 25606, 25619, 25638, 25654, 25885,
    25623, 25640, 25615, 25703, 25711, 25718, 25678, 25898, 25749, 25747, 25765, 25769, 25736, 25788, 25818, 25810,
    25797, 25799, 25787, 25816, 25794, 25841, 25831, 33289, 25824, 25825, 25260, 25827, 25839, 25900, 25846, 25844,
    25842, 25850, 25856, 25853, 25880, 25884, 25861, 25892, 25891, 25899, 25908, 25909, 25911, 25910, 25912, 30027,
    25928, 25942, 25941, 25933, 25944, 25950, 25949, 25970, 25976, 25986, 25987, 35722, 26011, 26015, 26027, 26039,
    26051, 26054, 26049, 26052, 26060, 26066, 26075, 26073, 26080, 26081, 26097, 26482, 26122, 26115, 26107, 26483,
    26165, 26166, 26164, 26140, 26191, 26180, 26185, 26177, 26206, 26205, 26212, 26215, 26216, 26207, 26210, 26224,
    26243, 26248, 26254, 26249, 26244, 26264, 26269, 26305, 26297, 26313, 26302, 26300, 26308, 26296, 26326, 26330,
    26336, 26175, 26342, 26345, 26352, 26357, 26359, 26383, 26390, 26398, 26406, 26407, 38712, 26414, 26431, 26422,
    26433, 26424, 26423, 26438, 26462, 26464, 26457, 26467, 26468, 26505, 26480, 26537, 26492, 26474, 26508, 26507,
    26534, 26529, 26501, 26551, 26607, 26548, 26604, 26547, 26601, 26552, 26596, 26590, 26589, 26594, 26606, 26553,
    26574, 26566, 26599, 27292, 26654, 26694, 26665, 26688, 26701, 26674, 26702, 26803, 26667, 26713, 26723, 26743,
    26751, 26783, 26767, 26797, 26772, 26781, 26779, 26755, 27310, 26809, 26740, 26805, 26784, 26810, 26895, 26765,
    26750, 26881, 26826, 26888, 26840, 26914, 26918, 26849, 26892, 26829, 26836, 26855, 26837, 26934, 26898, 26884,
    26839, 26851, 26917, 26873, 26848, 26863, 26920, 26922, 26906, 26915, 26913, 26822, 27001, 26999, 26972, 27000,
    26987, 26964, 27006, 26990, 26937, 26996, 26941, 26969, 26928, 26977, 26974, 26973, 27009, 26986, 27058, 27054,
    27088, 27071, 27073, 27091, 27070, 27086, 23528, 27082, 27101, 27067, 27075, 27047, 27182, 27025, 27040, 27036,
    27029, 27060, 27102, 27112, 27138, 27163, 27135, 27402, 27129, 27122, 27111, 27141, 27057, 27166, 27117, 27156,
    27115, 27146, 27154, 27329, 27171, 27155, 27204, 27148, 27250, 27190, 27256, 27207, 27234, 27225, 27238, 27208,
    27192, 27170, 27280, 27277, 27296, 27268, 27298, 27299, 27287, 34327, 27323, 27331, 27330, 27320, 27315, 27308,
    27358, 27345, 27359, 27306, 27354, 27370, 27387, 27397, 34326, 27386, 27410, 27414, 39729, 27423, 27448, 27447,
    30428, 27449, 39150, 27463, 27459, 27465, 27472, 27481, 27476, 27483, 27487, 27489, 27512, 27513, 27519, 27520,
    27524, 27523, 27533, 27544, 27541, 27550, 27556, 27562, 27563, 27567, 27570, 27569, 27571, 27575, 27580, 27590,
    27595, 27603, 27615, 27628, 27627, 27635, 27631, 40638, 27656, 27667, 27668, 27675, 27684, 27683, 27742, 27733,
    27746, 27754, 27778, 27789, 27802, 27777, 27803, 27774, 27752, 27763, 27794, 27792, 27844, 27889, 27859, 27837,
    27863, 27845, 27869, 27822, 27825, 27838, 27834, 27867, 27887, 27865, 27882, 27935, 34893, 27958, 27947, 27965,
    27960, 27929, 27957, 27955, 27922, 27916, 28003, 28051, 28004, 27994, 28025, 27993, 28046, 28053, 28644, 28037,
    28153, 28181, 28170, 28085, 28103, 28134, 28088, 28102, 28140, 28126, 28108, 28136, 28114, 28101, 28154, 28121,
    28132, 28117, 28138, 28142, 28205, 28270, 28206, 28185, 28274, 28255, 28222, 28195, 28267, 28203, 28278, 28237,
    28191, 28227, 28218, 28238, 28196, 28415, 28189, 28216, 28290, 28330, 28312, 28361, 28343, 28371, 28349, 28335,
    28356, 28338, 28372, 28373, 28303, 28325, 28354, 28319, 28481, 28433, 28748, 28396, 28408, 28414, 28479, 28402,
    28465, 28399, 28466, 28364, 28478, 28435, 28407, 28550, 28538, 28536, 28545, 28544, 28527, 28507, 28659, 28525,
    28546, 28540, 28504, 28558, 28561, 28610, 28518, 28595, 28579, 28577, 28580, 28601, 28614, 28586, 28639, 28629,
    28652, 28628, 28632, 28657, 28654, 28635, 28681, 28683, 28666, 28689, 28673, 28687, 28670, 28699, 28698, 28532,
    28701, 28696, 28703, 28720, 28734, 28722, 28753, 28771, 28825, 28818, 28847, 28913, 28844, 28856, 28851, 28846,
    28895, 28875, 28893, 28889, 28937, 28925, 28956, 28953, 29029, 29013, 29064, 29030, 29026, 29004, 29014, 29036,
    29071, 29179, 29060, 29077, 29096, 29100, 29143, 29113, 29118, 29138, 29129, 29140, 29134, 29152, 29164, 29159,
    29173, 29180, 29177, 29183, 29197, 29200, 29211, 29224, 29229, 29228, 29232, 29234, 29243, 29244, 29247, 29248,
    29254, 29259, 29272, 29300, 29310, 29314, 29313, 29319, 29330, 29334, 29346, 29351, 29369, 29362, 29379, 29382,
    29380, 29390, 29394, 29410, 29408, 29409, 29433, 29431, 20495, 29463, 29450, 29468, 29462, 29469, 29492, 29487,
    29481, 29477, 29502, 29518, 29519, 40664, 29527, 29546, 29544, 29552, 29560, 29557, 29563, 29562, 29640, 29619,
    29646, 29627, 29632, 29669, 29678, 29662, 29858, 29701, 29807, 29733, 29688, 29746, 29754, 29781, 29759, 29791,
    29785, 29761, 29788, 29801, 29808, 29795, 29802, 29814, 29822, 29835, 29854, 29863, 29898, 29903, 29908, 29681,
    29920, 29923, 29927, 29929, 29934, 29938, 29936, 29937, 29944, 29943, 29956, 29955, 29957, 29964, 29966, 29965,
    29973, 29971, 29982, 29990, 29996, 30012, 30020, 30029, 30026, 30025, 30043, 30022, 30042, 30057, 30052, 30055,
    30059, 30061, 30072, 30070, 30086, 30087, 30068, 30090, 30089, 30082, 30100, 30106, 30109, 30117, 30115, 30146,
    30131, 30147, 30133, 30141, 30136, 30140, 30129, 30157, 30154, 30162, 30169, 30179, 30174, 30206, 30207, 30204,
    30209, 30192, 30202, 30194, 30195, 30219, 30221, 30217, 30239, 30247, 30240, 30241, 30242, 30244, 30260, 30256,
    30267, 30279, 30280, 30278, 30300, 30296, 30305, 30306, 30312, 30313, 30314, 30311, 30316, 30320, 30322, 30326,
    30328, 30332, 30336, 30339, 30344, 30347, 30350, 30358, 30355, 30361, 30362, 30384, 30388, 30392, 30393, 30394,
    30402, 30413, 30422, 30418, 30430, 30433, 30437, 30439, 30442, 34351, 30459, 30472, 30471, 30468, 30505, 30500,
    30494, 30501, 30502, 30491, 30519, 30520, 30535, 30554, 30568, 30571, 30555, 30565, 30591, 30590, 30585, 30606,
    30603, 30609, 30624, 30622, 30640, 30646, 30649, 30655, 30652, 30653, 30651, 30663, 30669, 30679, 30682, 30684,
    30691, 30702, 30716, 30732, 30738, 31014, 30752, 31018, 30789, 30862, 30836, 30854, 30844, 30874, 30860, 30883,
    30901, 30890, 30895, 30929, 30918, 30923, 30932, 30910, 30908, 30917, 30922, 30956, 30951, 30938, 30973, 30964,
    30983, 30994, 30993, 31001, 31020, 31019, 31040, 31072, 31063, 31071, 31066, 31061, 31059, 31098, 31103, 31114,
    31133, 31143, 40779, 31146, 31150, 31155, 31161, 31162, 31177, 31189, 31207, 31212, 31201, 31203, 31240, 31245,
    31256, 31257, 31264, 31263, 31104, 31281, 31291, 31294, 31287, 31299, 31319, 31305, 31329, 31330, 31337, 40861,
    31344, 31353, 31357, 31368, 31383, 31381, 31384, 31382, 31401, 31432, 31408, 31414, 31429, 31428, 31423, 36995,
    31431, 31434, 31437, 31439, 31445, 31443, 31449, 31450, 31453, 31457, 31458, 31462, 31469, 31472, 31490, 31503,
    31498, 31494, 31539, 31512, 31513, 31518, 31541, 31528, 31542, 31568, 31610, 31492, 31565, 31499, 31564, 31557,
    31605, 31589, 31604, 31591, 31600, 31601, 31596, 31598, 31645, 31640, 31647, 31629, 31644, 31642, 31627, 31634,
    31631, 31581, 31641, 31691, 31681, 31692, 31695, 31668, 31686, 31709, 31721, 31761, 31764, 31718, 31717, 31840,
    31744, 31751, 31763, 31731, 31735, 31767, 31757, 31734, 31779, 31783, 31786, 31775, 31799, 31787, 31805, 31820,
    31811, 31828, 31823, 31808, 31824, 31832, 31839, 31844, 31830, 31845, 31852, 31861, 31875, 31888, 31908, 31917,
    31906, 31915, 31905, 31912, 31923, 31922, 31921, 31918, 31929, 31933, 31936, 31941, 31938, 31960, 31954, 31964,
    31970, 39739, 31983, 31986, 31988, 31990, 31994, 32006, 32002, 32028, 32021, 32010, 32069, 32075, 32046, 32050,
    32063, 32053, 32070, 32115, 32086, 32078, 32114, 32104, 32110, 32079, 32099, 32147, 32137, 32091, 32143, 32125,
    32155, 32186, 32174, 32163, 32181, 32199, 32189, 32171, 32317, 32162, 32175, 32220, 32184, 32159, 32176, 32216,
    32221, 32228, 32222, 32251, 32242, 32225, 32261, 32266, 32291, 32289, 32274, 32305, 32287, 32265, 32267, 32290,
    32326, 32358, 32315, 32309, 32313, 32323, 32311, 32306, 32314, 32359, 32349, 32342, 32350, 32345, 32346, 32377,
    32362, 32361, 32380, 32379, 32387, 32213, 32381, 36782, 32383, 32392, 32393, 32396, 32402, 32400, 32403, 32404,
    32406, 32398, 32411, 32412, 32568, 32570, 32581, 32588, 32589, 32590, 32592, 32593, 32597, 32596, 32600, 32607,
    32608, 32616, 32617, 32615, 32632, 32642, 32646, 32643, 32648, 32647, 32652, 32660, 32670, 32669, 32666, 32675,
    32687, 32690, 32697, 32686, 32694, 32696, 35697, 32709, 32710, 32714, 32725, 32724, 32737, 32742, 32745, 32755,
    32761, 39132, 32774, 32772, 32779, 32786, 32792, 32793, 32796, 32801, 32808, 32831, 32827, 32842, 32838, 32850,
    32856, 32858, 32863, 32866, 32872, 32883, 32882, 32880, 32886, 32889, 32893, 32895, 32900, 32902, 32901, 32923,
    32915, 32922, 32941, 20880, 32940, 32987, 32997, 32985, 32989, 32964, 32986, 32982, 33033, 33007, 33009, 33051,
    33065, 33059, 33071, 33099, 38539, 33094, 33086, 33107, 33105, 33020, 33137, 33134, 33125, 33126, 33140, 33155,
    33160, 33162, 33152, 33154, 33184, 33173, 33188, 33187, 33119, 33171, 33193, 33200, 33205, 33214, 33208, 33213,
    33216, 33218, 33210, 33225, 33229, 33233, 33241, 33240, 33224, 33242, 33247, 33248, 33255, 33274, 33275, 33278,
    33281, 33282, 33285, 33287, 33290, 33293, 33296, 33302, 33321, 33323, 33336, 33331, 33344, 33369, 33368, 33373,
    33370, 33375, 33380, 33378, 33384, 33386, 33387, 33326, 33393, 33399, 33400, 33406, 33421, 33426, 33451, 33439,
    33467, 33452, 33505, 33507, 33503, 33490, 33524, 33523, 33530, 33683, 33539, 33531, 33529, 33502, 33542, 33500,
    33545, 33497, 33589, 33588, 33558, 33586, 33585, 33600, 33593, 33616, 33605, 33583, 33579, 33559, 33560, 33669,
    33690, 33706, 33695, 33698, 33686, 33571, 33678, 33671, 33674, 33660, 33717, 33651, 33653, 33696, 33673, 33704,
    33780, 33811, 33771, 33742, 33789, 33795, 33752, 33803, 33729, 33783, 33799, 33760, 33778, 33805, 33826, 33824,
    33725, 33848, 34054, 33787, 33901, 33834, 33852, 34138, 33924, 33911, 33899, 33965, 33902, 33922, 33897, 33862,
    33836, 33903, 33913, 33845, 33994, 33890, 33977, 33983, 33951, 34009, 33997, 33979, 34010, 34000, 33985, 33990,
    34006, 33953, 34081, 34047, 34036, 34071, 34072, 34092, 34079, 34069, 34068, 34044, 34112, 34147, 34136, 34120,
    34113, 34306, 34123, 34133, 34176, 34212, 34184, 34193, 34186, 34216, 34157, 34196, 34203, 34282, 34183, 34204,
    34167, 34174, 34192, 34249, 34234, 34255, 34233, 34256, 34261, 34269, 34277, 34268, 34297, 34314, 34323, 34315,
    34302, 34298, 34310, 34338, 34330, 34352, 34367, 34381, 20053, 34388, 34399, 34407, 34417, 34451, 34467, 34473,
    34474, 34443, 34444, 34486, 34479, 34500, 34502, 34480, 34505, 34851, 34475, 34516, 34526, 34537, 34540, 34527,
    34523, 34543, 34578, 34566, 34568, 34560, 34563, 34555, 34577, 34569, 34573, 34553, 34570, 34612, 34623, 34615,
    34619, 34597, 34601, 34586, 34656, 34655, 34680, 34636, 34638, 34676, 34647, 34664, 34670, 34649, 34643, 34659,
    34666, 34821, 34722, 34719, 34690, 34735, 34763, 34749, 34752, 34768, 38614, 34731, 34756, 34739, 34759, 34758,
    34747, 34799, 34802, 34784, 34831, 34829, 34814, 34806, 34807, 34830, 34770, 34833, 34838, 34837, 34850, 34849,
    34865, 34870, 34873, 34855, 34875, 34884, 34882, 34898, 34905, 34910, 34914, 34923, 34945, 34942, 34974, 34933,
    34941, 34997, 34930, 34946, 34967, 34962, 34990, 34969, 34978, 34957, 34980, 34992, 35007, 34993, 35011, 35012,
    35028, 35032, 35033, 35037, 35065, 35074, 35068, 35060, 35048, 35058, 35076, 35084, 35082, 35091, 35139, 35102,
    35109, 35114, 35115, 35137, 35140, 35131, 35126, 35128, 35148, 35101, 35168, 35166, 35174, 35172, 35181, 35178,
    35183, 35188, 35191, 35198, 35203, 35208, 35210, 35219, 35224, 35233, 35241, 35238, 35244, 35247, 35250, 35258,
    35261, 35263, 35264, 35290, 35292, 35293, 35303, 35316, 35320, 35331, 35350, 35344, 35340, 35355, 35357, 35365,
    35382, 35393, 35419, 35410, 35398, 35400, 35452, 35437, 35436, 35426, 35461, 35458, 35460, 35496, 35489, 35473,
    35493, 35494, 35482, 35491, 35524, 35533, 35522, 35546, 35563, 35571, 35559, 35556, 35569, 35604, 35552, 35554,
    35575, 35550, 35547, 35596, 35591, 35610, 35553, 35606, 35600, 35607, 35616, 35635, 38827, 35622, 35627, 35646,
    35624, 35649, 35660, 35663, 35662, 35657, 35670, 35675, 35674, 35691, 35679, 35692, 35695, 35700, 35709, 35712,
    35724, 35726, 35730, 35731, 35734, 35737, 35738, 35898, 35905, 35903, 35912, 35916, 35918, 35920, 35925, 35938,
    35948, 35960, 35962, 35970, 35977, 35973, 35978, 35981, 35982, 35988, 35964, 35992, 25117, 36013, 36010, 36029,
    36018, 36019, 36014, 36022, 36040, 36033, 36068, 36067, 36058, 36093, 36090, 36091, 36100, 36101, 36106, 36103,
    36111, 36109, 36112, 40782, 36115, 36045, 36116, 36118, 36199, 36205, 36209, 36211, 36225, 36249, 36290, 36286,
    36282, 36303, 36314, 36310, 36300, 36315, 36299, 36330, 36331, 36319, 36323, 36348, 36360, 36361, 36351, 36381,
    36382, 36368, 36383, 36418, 36405, 36400, 36404, 36426, 36423, 36425, 36428, 36432, 36424, 36441, 36452, 36448,
    36394, 36451, 36437, 36470, 36466, 36476, 36481, 36487, 36485, 36484, 36491, 36490, 36499, 36497, 36500, 36505,
    36522, 36513, 36524, 36528, 36550, 36529, 36542, 36549, 36552, 36555, 36571, 36579, 36604, 36603, 36587, 36606,
    36618, 36613, 36629, 36626, 36633, 36627, 36636, 36639, 36635, 36620, 36646, 36659, 36667, 36665, 36677, 36674,
    36670, 36684, 36681, 36678, 36686, 36695, 36700, 36706, 36707, 36708, 36764, 36767, 36771, 36781, 36783, 36791,
    36826, 36837, 36834, 36842, 36847, 36999, 36852, 36869, 36857, 36858, 36881, 36885, 36897, 36877, 36894, 36886,
    36875, 36903, 36918, 36917, 36921, 36856, 36943, 36944, 36945, 36946, 36878, 36937, 36926, 36950, 36952, 36958,
    36968, 36975, 36982, 38568, 36978, 36994, 36989, 36993, 36992, 37002, 37001, 37007, 37032, 37039, 37041, 37045,
    37090, 37092, 25160, 37083, 37122, 37138, 37145, 37170, 37168, 37194, 37206, 37208, 37219, 37221, 37225, 37235,
    37234, 37259, 37257, 37250, 37282, 37291, 37295, 37290, 37301, 37300, 37306, 37312, 37313, 37321, 37323, 37328,
    37334, 37343, 37345, 37339, 37372, 37365, 37366, 37406, 37375, 37396, 37420, 37397, 37393, 37470, 37463, 37445,
    37449, 37476, 37448, 37525, 37439, 37451, 37456, 37532, 37526, 37523, 37531, 37466, 37583, 37561, 37559, 37609,
    37647, 37626, 37700, 37678, 37657, 37666, 37658, 37667, 37690, 37685, 37691, 37724, 37728, 37756, 37742, 37718,
    37808, 37804, 37805, 37780, 37817, 37846, 37847, 37864, 37861, 37848, 37827, 37853, 37840, 37832, 37860, 37914,
    37908, 37907, 37891, 37895, 37904, 37942, 37931, 37941, 37921, 37946, 37953, 37970, 37956, 37979, 37984, 37986,
    37982, 37994, 37417, 38000, 38005, 38007, 38013, 37978, 38012, 38014, 38017, 38015, 38274, 38279, 38282, 38292,
    38294, 38296, 38297, 38304, 38312, 38311, 38317, 38332, 38331, 38329, 38334, 38346, 28662, 38339, 38349, 38348,
    38357, 38356, 38358, 38364, 38369, 38373, 38370, 38433, 38440, 38446, 38447, 38466, 38476, 38479, 38475, 38519,
    38492, 38494, 38493, 38495, 38502, 38514, 38508, 38541, 38552, 38549, 38551, 38570, 38567, 38577, 38578, 38576,
    38580, 38582, 38584, 38585, 38606, 38603, 38601, 38605, 35149, 38620, 38669, 38613, 38649, 38660, 38662, 38664,
    38675, 38670, 38673, 38671, 38678, 38681, 38692, 38698, 38704, 38713, 38717, 38718, 38724, 38726, 38728, 38722,
    38729, 38748, 38752, 38756, 38758, 38760, 21202, 38763, 38769, 38777, 38789, 38780, 38785, 38778, 38790, 38795,
    38799, 38800, 38812, 38824, 38822, 38819, 38835, 38836, 38851, 38854, 38856, 38859, 38876, 38893, 40783, 38898,
    31455, 38902, 38901, 38927, 38924, 38968, 38948, 38945, 38967, 38973, 38982, 38991, 38987, 39019, 39023, 39024,
    39025, 39028, 39027, 39082, 39087, 39089, 39094, 39108, 39107, 39110, 39145, 39147, 39171, 39177, 39186, 39188,
    39192, 39201, 39197, 39198, 39204, 39200, 39212, 39214, 39229, 39230, 39234, 39241, 39237, 39248, 39243, 39249,
    39250, 39244, 39253, 39319, 39320, 39333, 39341, 39342, 39356, 39391, 39387, 39389, 39384, 39377, 39405, 39406,
    39409, 39410, 39419, 39416, 39425, 39439, 39429, 39394, 39449, 39467, 39479, 39493, 39490, 39488, 39491, 39486,
    39509, 39501, 39515, 39511, 39519, 39522, 39525, 39524, 39529, 39531, 39530, 39597, 39600, 39612, 39616, 39631,
    39633, 39635, 39636, 39646, 39647, 39650, 39651, 39654, 39663, 39659, 39662, 39668, 39665, 39671, 39675, 39686,
    39704, 39706, 39711, 39714, 39715, 39717, 39719, 39720, 39721, 39722, 39726, 39727, 39730, 39748, 39747, 39759,
    39757, 39758, 39761, 39768, 39796, 39827, 39811, 39825, 39830, 39831, 39839, 39840, 39848, 39860, 39872, 39882,
    39865, 39878, 39887, 39889, 39890, 39907, 39906, 39908, 39892, 39905, 39994, 39922, 39921, 39920, 39957, 39956,
    39945, 39955, 39948, 39942, 39944, 39954, 39946, 39940, 39982, 39963, 39973, 39972, 39969, 39984, 40007, 39986,
    40006, 39998, 40026, 40032, 40039, 40054, 40056, 40167, 40172, 40176, 40201, 40200, 40171, 40195, 40198, 40234,
    40230, 40367, 40227, 40223, 40260, 40213, 40210, 40257, 40255, 40254, 40262, 40264, 40285, 40286, 40292, 40273,
    40272, 40281, 40306, 40329, 40327, 40363, 40303, 40314, 40346, 40356, 40361, 40370, 40388, 40385, 40379, 40376,
    40378, 40390, 40399, 40386, 40409, 40403, 40440, 40422, 40429, 40431, 40445, 40474, 40475, 40478, 40565, 40569,
    40573, 40577, 40584, 40587, 40588, 40594, 40597, 40593, 40605, 40613, 40617, 40632, 40618, 40621, 38753, 40652,
    40654, 40655, 40656, 40660, 40668, 40670, 40669, 40672, 40677, 40680, 40687, 40692, 40694, 40695, 40697, 40699,
    40700, 40701, 40711, 40712, 30391, 40725, 40737, 40748, 40766, 40778, 40786, 40788, 40803, 40799, 40800, 40801,
    40806, 40807, 40812, 40810, 40823, 40818, 40822, 40853, 40860, 40864, 22575, 27079, 36953, 29796, 20956, 29081,
    0, 0, 0, 0, 0, 0, 0, 0, 0, 0, 0, 0, 0, 0, 0, 0,
    0, 0, 0, 0, 0, 0, 0, 0, 0, 0, 0, 0, 0, 0, 0, 0,
    0, 0, 0, 0, 0, 0, 0, 0, 0, 0, 0, 0, 0, 0, 0, 0,
    0, 0, 0, 0, 0, 0, 0, 0, 0, 0, 0, 0, 0, 0, 0, 0,
    0, 0, 0, 0, 0, 0, 0, 0, 0, 0, 0, 0, 0, 0, 0, 0,
    0, 0, 0, 0, 0, 0, 0, 0, 0, 0, 0, 0, 0, 0, 0, 0,
    0, 0, 0, 0, 0, 0, 0, 0, 0, 0, 0, 0, 0, 0, 0, 0,
    0, 0, 0, 0, 0, 0, 0, 0, 0, 0, 0, 0, 0, 0, 0, 0,
    0, 0, 0, 0, 0, 0, 0, 0, 0, 0, 0, 0, 0, 0, 0, 0,
    0, 0, 0, 0, 0, 0, 0, 0, 0, 0, 0, 0, 0, 0, 0, 0,
    0, 0, 0, 0, 0, 0, 0, 0, 0, 0, 0, 0, 0, 0, 0, 0,
    0, 0, 0, 0, 0, 0, 0, 0, 0, 0, 0, 0, 0, 0, 0, 0,
    0, 0, 0, 0, 0, 0, 0, 0, 0, 0, 0, 0, 0, 0, 0, 0,
    0, 0, 0, 0, 0, 0, 0, 0, 0, 0, 0, 0, 0, 0, 0, 0,
    0, 0, 0, 0, 0, 0, 0, 0, 0, 0, 0, 0, 0, 0, 0, 0,
    0, 0, 0, 0, 0, 0, 0, 0, 0, 0, 0, 0, 0, 0, 0, 0,
    0, 0, 0, 0, 0, 0, 0, 0, 0, 0, 0, 0, 0, 0, 0, 0,
    0, 0, 0, 0, 0, 0, 0, 0, 0, 0, 0, 0, 0, 0, 0, 0,
    0, 0, 0, 0, 0, 0, 0, 0, 0, 0, 0, 0, 0, 0, 0, 0,
    0, 0, 0, 0, 0, 0, 0, 0, 0, 0, 0, 0, 0, 0, 0, 0,
    0, 0, 0, 0, 0, 0, 0, 0, 0, 0, 0, 0, 0, 0, 0, 0,
    0, 0, 0, 0, 0, 0, 0, 0, 0, 0, 0, 0, 0, 0, 0, 0,
    0, 0, 0, 0, 0, 0, 0, 0, 0, 0, 0, 0, 0, 0, 0, 0,
    0, 0, 0, 0, 0, 0, 0, 0, 0, 0, 0, 0, 0, 0, 0, 0,
    0, 0, 0, 0, 0, 0, 0, 0, 0, 0, 0, 0, 0, 0, 0, 0,
    0, 0, 0, 0, 0, 0, 0, 0, 0, 0, 0, 0, 0, 0, 0, 0,
    0, 0, 0, 0, 0, 0, 0, 0, 0, 0, 0, 0, 0, 0, 0, 0,
    0, 0, 0, 0, 0, 0, 0, 0, 0, 0, 0, 0, 0, 0, 0, 0,
    0, 0, 0, 0, 0, 0, 0, 0, 0, 0, 0, 0, 0, 0, 0, 0,
    32394, 35100, 37704, 37512, 34012, 20425, 28859, 26161, 26824, 37625, 26363, 24389, 20008, 20193, 20220, 20224,
    20227, 20281, 20310, 20370, 20362, 20378, 20372, 20429, 20544, 20514, 20479, 20510, 20550, 20592, 20546, 20628,
    20724, 20696, 20810, 20836, 20893, 20926, 20972, 21013, 21148, 21158, 21184, 21211, 21248, 21255, 21284, 21362,
    21395, 21426, 21469, 64014, 21660, 21642, 21673, 21759, 21894, 22361, 22373, 22444, 22472, 22471, 64015, 64016,
    22686, 22706, 22795, 22867, 22875, 22877, 22883, 22948, 22970, 23382, 23488, 29999, 23512, 23532, 23582, 23718,
    23738, 23797, 23847, 23891, 64017, 23874, 23917, 23992, 23993, 24016, 24353, 24372, 24423, 24503, 24542, 24669,
    24709, 24714, 24798, 24789, 24864, 24818, 24849, 24887, 24880, 24984, 25107, 25254, 25589, 25696, 25757, 25806,
    25934, 26112, 26133, 26171, 26121, 26158, 26142, 26148, 26213, 26199, 26201, 64018, 26227, 26265, 26272, 26290,
    26303, 26362, 26382, 63785, 26470, 26555, 26706, 26560, 26625, 26692, 26831, 64019, 26984, 64020, 27032, 27106,
    27184, 27243, 27206, 27251, 27262, 27362, 27364, 27606, 27711, 27740, 27782, 27759, 27866, 27908, 28039, 28015,
    28054, 28076, 28111, 28152, 28146, 28156, 28217, 28252, 28199, 28220, 28351, 28552, 28597, 28661, 28677, 28679,
    28712, 28805, 28843, 28943, 28932, 29020, 28998, 28999, 64021, 29121, 29182, 29361, 29374, 29476, 64022, 29559,
    29629, 29641, 29654, 29667, 29650, 29703, 29685, 29734, 29738, 29737, 29742, 29794, 29833, 29855, 29953, 30063,
    30338, 30364, 30366, 30363, 30374, 64023, 30534, 21167, 30753, 30798, 30820, 30842, 31024, 64024, 64025, 64026,
    31124, 64027, 31131, 31441, 31463, 64028, 31467, 31646, 64029, 32072, 32092, 32183, 32160, 32214, 32338, 32583,
    32673, 64030, 33537, 33634, 33663, 33735, 33782, 33864, 33972, 34131, 34137, 34155, 64031, 34224, 64032, 64033,
    34823, 35061, 35346, 35383, 35449, 35495, 35518, 35551, 64034, 35574, 35667, 35711, 36080, 36084, 36114, 36214,
    64035, 36559, 64036, 64037, 36967, 37086, 64038, 37141, 37159, 37338, 37335, 37342, 37357, 37358, 37348, 37349,
    37382, 37392, 37386, 37434, 37440, 37436, 37454, 37465, 37457, 37433, 37479, 37543, 37495, 37496, 37607, 37591,
    37593, 37584, 64039, 37589, 37600, 37587, 37669, 37665, 37627, 64040, 37662, 37631, 37661, 37634, 37744, 37719,
    37796, 37830, 37854, 37880, 37937, 37957, 37960, 38290, 63964, 64041, 38557, 38575, 38707, 38715, 38723, 38733,
    38735, 38737, 38741, 38999, 39013, 64042, 64043, 39207, 64044, 39326, 39502, 39641, 39644, 39797, 39794, 39823,
    39857, 39867, 39936, 40304, 40299, 64045, 40473, 40657, 0, 0, 8560, 8561, 8562, 8563, 8564, 8565,
    8566, 8567, 8568, 8569, 65506, 65508, 65287, 65282, 0, 0, 0, 0, 0, 0, 0, 0,
    0, 0, 0, 0, 0, 0, 0, 0, 0, 0, 0, 0, 0, 0, 0, 0,
    0, 0, 0, 0, 0, 0, 0, 0, 0, 0, 0, 0, 0, 0, 0, 0,
    0, 0, 0, 0, 0, 0, 0, 0, 0, 0, 0, 0, 0, 0, 0, 0,
    0, 0, 0, 0, 0, 0, 0, 0, 0, 0, 0, 0, 0, 0, 0, 0,
    0, 0, 0, 0, 0, 0, 0, 0, 0, 0, 0, 0, 0, 0, 0, 0,
    0, 0, 0, 0, 0, 0, 0, 0, 0, 0, 0, 0, 0, 0, 0, 0,
    0, 0, 0, 0, 0, 0, 0, 0, 0, 0, 0, 0, 0, 0, 0, 0,
    0, 0, 0, 0, 0, 0, 0, 0, 0, 0, 0, 0, 0, 0, 0, 0,
    0, 0, 0, 0, 0, 0, 0, 0, 0, 0, 0, 0, 0, 0, 0, 0,
    0, 0, 0, 0, 0, 0, 0, 0, 0, 0, 0, 0, 0, 0, 0, 0,
    0, 0, 0, 0, 0, 0, 0, 0, 0, 0, 0, 0, 0, 0, 0, 0,
    0, 0, 0, 0 >>

Jis0208High == <<
    8560, 8561, 8562, 8563, 8564, 8565, 8566, 8567, 8568, 8569, 8544, 8545, 8546, 8547, 8548, 8549,
    8550, 8551, 8552, 8553, 65506, 65508, 65287, 65282, 12849, 8470, 8481, 8757, 32394, 35100, 37704, 37512,
    34012, 20425, 28859, 26161, 26824, 37625, 26363, 24389, 20008, 20193, 20220, 20224, 20227, 20281, 20310, 20370,
    20362, 20378, 20372, 20429, 20544, 20514, 20479, 20510, 20550, 20592, 20546, 20628, 20724, 20696, 20810, 20836,
    20893, 20926, 20972, 21013, 21148, 21158, 21184, 21211, 21248, 21255, 21284, 21362, 21395, 21426, 21469, 64014,
    21660, 21642, 21673, 21759, 21894, 22361, 22373, 22444, 22472, 22471, 64015, 64016, 22686, 22706, 22795, 22867,
    22875, 22877, 22883, 22948, 22970, 23382, 23488, 29999, 23512, 23532, 23582, 23718, 23738, 23797, 23847, 23891,
    64017, 23874, 23917, 23992, 23993, 24016, 24353, 24372, 24423, 24503, 24542, 24669, 24709, 24714, 24798, 24789,
    24864, 24818, 24849, 24887, 24880, 24984, 25107, 25254, 25589, 25696, 25757, 25806, 25934, 26112, 26133, 26171,
    26121, 26158, 26142, 26148, 26213, 26199, 26201, 64018, 26227, 26265, 26272, 26290, 26303, 26362, 26382, 63785,
    26470, 26555, 26706, 26560, 26625, 26692, 26831, 64019, 26984, 64020, 27032, 27106, 27184, 27243, 27206, 27251,
    27262, 27362, 27364, 27606, 27711, 27740, 27782, 27759, 27866, 27908, 28039, 28015, 28054, 28076, 28111, 28152,
    28146, 28156, 28217, 28252, 28199, 28220, 28351, 28552, 28597, 28661, 28677, 28679, 28712, 28805, 28843, 28943,
    28932, 29020, 28998, 28999, 64021, 29121, 29182, 29361, 29374, 29476, 64022, 29559, 29629, 29641, 29654, 29667,
    29650, 29703, 29685, 29734, 29738, 29737, 29742, 29794, 29833, 29855, 29953, 30063, 30338, 30364, 30366, 30363,
    30374, 64023, 30534, 21167, 30753, 30798, 30820, 30842, 31024, 64024, 64025, 64026, 31124, 64027, 31131, 31441,
    31463, 64028, 31467, 31646, 64029, 32072, 32092, 32183, 32160, 32214, 32338, 32583, 32673, 64030, 33537, 33634,
    33663, 33735, 33782, 33864, 33972, 34131, 34137, 34155, 64031, 34224, 64032, 64033, 34823, 35061, 35346, 35383,
    35449, 35495, 35518, 35551, 64034, 35574, 35667, 35711, 36080, 36084, 36114, 36214, 64035, 36559, 64036, 64037,
    36967, 37086, 64038, 37141, 37159, 37338, 37335, 37342, 37357, 37358, 37348, 37349, 37382, 37392, 37386, 37434,
    37440, 37436, 37454, 37465, 37457, 37433, 37479, 37543, 37495, 37496, 37607, 37591, 37593, 37584, 64039, 37589,
    37600, 37587, 37669, 37665, 37627, 64040, 37662, 37631, 37661, 37634, 37744, 37719, 37796, 37830, 37854, 37880,
    37937, 37957, 37960, 38290, 63964, 64041, 38557, 38575, 38707, 38715, 38723, 38733, 38735, 38737, 38741, 38999,
    39013, 64042, 64043, 39207, 64044, 39326, 39502, 39641, 39644, 39797, 39794, 39823, 39857, 39867, 39936, 40304,
    40299, 64045, 40473, 40657 >>

SjisIndex(pointer) ==
    IF pointer < 8836 THEN Jis0208Low[pointer + 1]
    ELSE IF pointer <= 10715 THEN 57344 + (pointer - 8836)
    ELSE IF pointer <= 11103 THEN Jis0208High[pointer - 10715]
    ELSE 0

SjisIsLead(b) == (b >= 129 /\ b <= 159) \/ (b >= 224 /\ b <= 252)

SjisIsTrail(b) == (b >= 64 /\ b <= 126) \/ (b >= 128 /\ b <= 252)

SjisPointerOf(lead, trail) ==
    (lead - (IF lead < 160 THEN 129 ELSE 193)) * 188
    + trail - (IF trail < 127 THEN 64 ELSE 65)

\* The code point of a lead byte and the byte after it, 0 for none.
SjisTwoBytes(lead, trail) ==
    IF SjisIsTrail(trail) THEN SjisIndex(SjisPointerOf(lead, trail)) ELSE 0

\* The single-byte part: ASCII and 0x80 are themselves, 0xA1..0xDF are
\* the half-width katakana U+FF61..U+FF9F; -1 for a lead byte and for
\* 0xA0 and 0xFD..0xFF, which are errors.
SjisDecodeByte(b) ==
    IF b <= 128 THEN b
    ELSE IF b >= 161 /\ b <= 223 THEN 65377 + (b - 161)
    ELSE -1

\* One turn of the decoder, [i, text, errors]: the character at byte i.
\* A lead byte without a second byte that completes it is an error; the
\* second byte is then read again when it is ASCII.
SjisMalformed(st, length) ==
    [i |-> st.i + length, text |-> Append(st.text, REPLACEMENT_CHARACTER), errors |-> TRUE]

SjisDecodeStep(bytes, st) ==
    IF SjisDecodeByte(bytes[st.i]) >= 0
    THEN [st EXCEPT !.i = @ + 1, !.text = Append(@, SjisDecodeByte(bytes[st.i]))]
    ELSE IF ~SjisIsLead(bytes[st.i]) \/ st.i = Len(bytes) THEN SjisMalformed(st, 1)
    ELSE IF SjisTwoBytes(bytes[st.i], bytes[st.i + 1]) # 0
    THEN [st EXCEPT !.i = @ + 2,
                    !.text = Append(@, SjisTwoBytes(bytes[st.i], bytes[st.i + 1]))]
    ELSE SjisMalformed(st, IF bytes[st.i + 1] < 128 THEN 1 ELSE 2)

RECURSIVE SjisDecodeLoop(_, _, _)
SjisDecodeLoop(bytes, st, k) ==
    IF k = 0 \/ st.i > Len(bytes) THEN st
    ELSE IF k = 1 THEN SjisDecodeStep(bytes, st)
    ELSE SjisDecodeLoop(bytes, SjisDecodeLoop(bytes, st, k \div 2), k - (k \div 2))

\* The UTF-8 decoder, [i, text, errors, cp, seen, needed, lower, upper]:
\* a byte outside lower..upper ends the sequence in an error and is read
\* again.
Utf8Start == [cp |-> 0, seen |-> 0, needed |-> 0, lower |-> 128, upper |-> 191]

Utf8Lead(st, b) ==
    IF b <= 127 THEN [st EXCEPT !.i = @ + 1, !.text = Append(@, b)]
    ELSE IF b >= 194 /\ b <= 223
    THEN [st EXCEPT !.i = @ + 1, !.needed = 1, !.cp = b % 32]
    ELSE IF b >= 224 /\ b <= 239
    THEN [st EXCEPT !.i = @ + 1, !.needed = 2, !.cp = b % 16,
                    !.lower = IF b = 224 THEN 160 ELSE 128,
                    !.upper = IF b = 237 THEN 159 ELSE 191]
    ELSE IF b >= 240 /\ b <= 244
    THEN [st EXCEPT !.i = @ + 1, !.needed = 3, !.cp = b % 8,
                    !.lower = IF b = 240 THEN 144 ELSE 128,
                    !.upper = IF b = 244 THEN 143 ELSE 191]
    ELSE [st EXCEPT !.i = @ + 1, !.text = Append(@, REPLACEMENT_CHARACTER),
                    !.errors = TRUE]

Utf8Continue(st, b) ==
    IF b < st.lower \/ b > st.upper
    THEN [i |-> st.i, text |-> Append(st.text, REPLACEMENT_CHARACTER), errors |-> TRUE]
         @@ Utf8Start
    ELSE IF st.seen + 1 = st.needed
    THEN [i |-> st.i + 1, text |-> Append(st.text, st.cp * 64 + (b % 64)),
          errors |-> st.errors] @@ Utf8Start
    ELSE [st EXCEPT !.i = @ + 1, !.cp = @ * 64 + (b % 64), !.seen = @ + 1,
                    !.lower = 128, !.upper = 191]

Utf8Step(bytes, st) ==
    IF st.needed = 0 THEN Utf8Lead(st, bytes[st.i]) ELSE Utf8Continue(st, bytes[st.i])

RECURSIVE Utf8Loop(_, _, _)
Utf8Loop(bytes, st, k) ==
    IF k = 0 \/ st.i > Len(bytes) THEN st
    ELSE IF k = 1 THEN Utf8Step(bytes, st)
    ELSE Utf8Loop(bytes, Utf8Loop(bytes, st, k \div 2), k - (k \div 2))

Utf8End(st) ==
    [errors |-> st.errors \/ st.needed # 0,
     text |-> IF st.needed # 0 THEN Append(st.text, REPLACEMENT_CHARACTER) ELSE st.text]

Utf8Decode(bytes) ==
    Utf8End(Utf8Loop(bytes, [i |-> 1, text |-> <<>>, errors |-> FALSE] @@ Utf8Start,
                     2 * Len(bytes)))

\* The UTF-16 decoder, [i, text, errors]: the code unit at byte i, a
\* surrogate pair as one character.  An odd byte, a lone surrogate and a
\* lead surrogate at the end are errors.
Utf16Unit(bytes, i, big_endian) ==
    IF big_endian THEN bytes[i] * 256 + bytes[i + 1] ELSE bytes[i + 1] * 256 + bytes[i]

IsLeadSurrogate(unit) == unit >= 55296 /\ unit <= 56319

IsTrailSurrogate(unit) == unit >= 56320 /\ unit <= 57343

Utf16Malformed(st, next) ==
    [i |-> next, text |-> Append(st.text, REPLACEMENT_CHARACTER), errors |-> TRUE]

Utf16Step(bytes, big_endian, st) ==
    IF st.i = Len(bytes) THEN Utf16Malformed(st, st.i + 1)
    ELSE IF IsTrailSurrogate(Utf16Unit(bytes, st.i, big_endian))
    THEN Utf16Malformed(st, st.i + 2)
    ELSE IF ~IsLeadSurrogate(Utf16Unit(bytes, st.i, big_endian))
    THEN [st EXCEPT !.i = @ + 2, !.text = Append(@, Utf16Unit(bytes, st.i, big_endian))]
    ELSE IF st.i + 3 > Len(bytes) THEN Utf16Malformed(st, Len(bytes) + 1)
    ELSE IF ~IsTrailSurrogate(Utf16Unit(bytes, st.i + 2, big_endian))
    THEN Utf16Malformed(st, st.i + 2)
    ELSE [st EXCEPT !.i = @ + 4,
                    !.text = Append(@, 65536
                                       + (Utf16Unit(bytes, st.i, big_endian) - 55296) * 1024
                                       + (Utf16Unit(bytes, st.i + 2, big_endian) - 56320))]

RECURSIVE Utf16Loop(_, _, _, _)
Utf16Loop(bytes, big_endian, st, k) ==
    IF k = 0 \/ st.i > Len(bytes) THEN st
    ELSE IF k = 1 THEN Utf16Step(bytes, big_endian, st)
    ELSE Utf16Loop(bytes, big_endian, Utf16Loop(bytes, big_endian, st, k \div 2),
                   k - (k \div 2))

Decoded(st) == [errors |-> st.errors, text |-> st.text]

Utf16Decode(bytes, big_endian) ==
    Decoded(Utf16Loop(bytes, big_endian, [i |-> 1, text |-> <<>>, errors |-> FALSE],
                      Len(bytes)))

SjisDecodeWithoutBom(bytes) ==
    Decoded(SjisDecodeLoop(bytes, [i |-> 1, text |-> <<>>, errors |-> FALSE], Len(bytes)))

\* SHIFT_JIS.decode: with BOM sniffing, malformed sequences replaced;
\* [errors, text].
SjisDecode(bytes) ==
    IF StartsWith(bytes, <<239, 187, 191>>) THEN Utf8Decode(SubSeq(bytes, 4, Len(bytes)))
    ELSE IF StartsWith(bytes, <<255, 254>>)
    THEN Utf16Decode(SubSeq(bytes, 3, Len(bytes)), FALSE)
    ELSE IF StartsWith(bytes, <<254, 255>>)
    THEN Utf16Decode(SubSeq(bytes, 3, Len(bytes)), TRUE)
    ELSE SjisDecodeWithoutBom(bytes)

\* The pointers the encoder may use for a code point: those of the index
\* outside 8272..8835; it takes the first.
SjisPointers(c) ==
    {p \in 0..8271 : Jis0208Low[p + 1] = c}
    \cup {p \in 10716..11103 : Jis0208High[p - 10715] = c}

SjisPointerBytes(pointer) ==
    <<(pointer \div 188) + (IF pointer \div 188 < 31 THEN 129 ELSE 193),
      (pointer % 188) + (IF pointer % 188 < 63 THEN 64 ELSE 65)>>

SjisFirstPointer(found) == CHOOSE p \in found : \A q \in found : p <= q

\* U+2212 is encoded as U+FF0D.
SjisFolded(c) == IF c = 8722 THEN 65293 ELSE c

SjisSingleByte(c) ==
    IF c <= 128 THEN c
    ELSE IF c = 165 THEN 92
    ELSE IF c = 8254 THEN 126
    ELSE IF c >= 65377 /\ c <= 65439 THEN 161 + (c - 65377)
    ELSE -1

SjisUnmappable(c) == SjisSingleByte(c) = -1 /\ SjisPointers(SjisFolded(c)) = {}

\* The decimal digits of n in ASCII.
RECURSIVE Decimal(_)
Decimal(n) == (IF n < 10 THEN <<>> ELSE Decimal(n \div 10)) \o <<48 + (n % 10)>>

\* The bytes of one character; an unmappable one becomes "&#N;".
SjisEncodeChar(c) ==
    IF SjisSingleByte(c) >= 0 THEN <<SjisSingleByte(c)>>
    ELSE IF SjisPointers(SjisFolded(c)) = {} THEN <<38, 35>> \o Decimal(c) \o <<59>>
    ELSE SjisPointerBytes(SjisFirstPointer(SjisPointers(SjisFolded(c))))

\* SHIFT_JIS.encode: [errors, bytes].
SjisEncode(text) ==
    [errors |-> \E k \in 1..Len(text) : SjisUnmappable(text[k]),
     bytes |-> Flatten([k \in 1..Len(text) |-> SjisEncodeChar(text[k])], 1, Len(text))]

\* SHIFT_JIS.decode of the bytes collected, then the panic on errors.
DecodedString(raw) ==
    LET decoded == SjisDecode(raw.value)
    IN  [ok |-> raw.ok /\ ~decoded.errors, fh |-> raw.fh, value |-> decoded.text]

\* read_shiftjis: a NUL-terminated string.
read_shiftjis(fh) == DecodedString(ReadUntil(fh, 0, <<>>))

\* The opening quote, then the string up to the closing quote.
QuotedString(first_byte) ==
    IF ~first_byte.ok \/ first_byte.value # 34
    THEN [ok |-> FALSE, fh |-> first_byte.fh, value |-> <<>>]
    ELSE DecodedString(ReadUntil(first_byte.fh, 34, <<>>))

\* read_quoted_shiftjis: '"', the string, '"'.
read_quoted_shiftjis(fh) == QuotedString(read_u8(fh))

\* write_shiftjis: the encoded string and a NUL; [ok, fh].
write_shiftjis(fh, value) ==
    LET encoded == SjisEncode(value)
    IN  IF encoded.errors THEN [ok |-> FALSE, fh |-> fh]
        ELSE [ok |-> TRUE, fh |-> write_buffer(write_buffer(fh, encoded.bytes), <<0>>)]

\* A read_slice over a forward-only stream: it never seeks backwards.
ReadSliceForward(fh, offset, size) ==
    LET start == Max(offset, fh.cursor)
        available == IF start >= Len(fh.file) THEN 0 ELSE Len(fh.file) - start
        count == IF size < available THEN size ELSE available
    IN  [fh |-> [fh EXCEPT !.cursor = SatAdd(start, count), !.position = SatAdd(@, size)],
         huge |-> size > MaxSlice,
         value |-> IF size > MaxSlice THEN <<>>
                   ELSE [k \in 1..size |-> IF k <= count THEN fh.file[start + k] ELSE 0]]

\* A read_slice that reads where the stream stands instead of seeking.
ReadSliceAtCursor(fh, offset, size) ==
    LET available == IF fh.cursor >= Len(fh.file) THEN 0 ELSE Len(fh.file) - fh.cursor
        count == IF size < available THEN size ELSE available
    IN  [fh |-> [fh EXCEPT !.cursor = SatAdd(@, count), !.position = SatAdd(@, size)],
         huge |-> size > MaxSlice,
         value |-> IF size > MaxSlice THEN <<>>
                   ELSE [k \in 1..size |-> IF k <= count THEN fh.file[fh.cursor + k] ELSE 0]]

\* read_slice: seek to offset, one read into a zeroed buffer of `size` bytes
\* (a short read leaves the rest zero), position += size.  The model does
\* not build a buffer of more than MaxSlice bytes: huge = TRUE, value empty.
read_slice(fh, offset, size) ==
    LET available == IF offset >= Len(fh.file) THEN 0 ELSE Len(fh.file) - offset
        count == IF size < available THEN size ELSE available
    IN  [fh |-> [fh EXCEPT !.cursor = SatAdd(offset, count), !.position = SatAdd(@, size)],
         huge |-> size > MaxSlice,
         value |-> IF size > MaxSlice THEN <<>>
                   ELSE [k \in 1..size |-> IF k <= count THEN fh.file[offset + k] ELSE 0]]

\* A read_slice_through_keytable that hands the bytes on as they are stored.
ReadSliceUnkeyed(fh, offset, size) == read_slice(fh, offset, size)

read_slice_through_keytable(fh, offset, size) ==
    LET slice == read_slice(fh, offset, size)
    IN  [fh |-> slice.fh, huge |-> slice.huge,
         value |-> Substitute(fh.key_table, slice.value)]

\* A to_lowercase that leaves the text as it is.
KeepCase(text) == text

\* char::to_lowercase (Unicode 17.0) by ranges <<first, last, step, offset>>:
\* every step-th code point from first to last has its lowercase offset away.
LowercaseRanges == <<
    <<65, 90, 1, 32>>, <<192, 214, 1, 32>>, <<216, 222, 1, 32>>, <<256, 302, 2, 1>>,
    <<306, 310, 2, 1>>, <<313, 327, 2, 1>>, <<330, 374, 2, 1>>, <<376, 376, 1, -121>>,
    <<377, 381, 2, 1>>, <<385, 385, 1, 210>>, <<386, 388, 2, 1>>, <<390, 390, 1, 206>>,
    <<391, 391, 1, 1>>, <<393, 394, 1, 205>>, <<395, 395, 1, 1>>, <<398, 398, 1, 79>>,
    <<399, 399, 1, 202>>, <<400, 400, 1, 203>>, <<401, 401, 1, 1>>, <<403, 403, 1, 205>>,
    <<404, 404, 1, 207>>, <<406, 406, 1, 211>>, <<407, 407, 1, 209>>, <<408, 408, 1, 1>>,
    <<412, 412, 1, 211>>, <<413, 413, 1, 213>>, <<415, 415, 1, 214>>, <<416, 420, 2, 1>>,
    <<422, 422, 1, 218>>, <<423, 423, 1, 1>>, <<425, 425, 1, 218>>, <<428, 428, 1, 1>>,
    <<430, 430, 1, 218>>, <<431, 431, 1, 1>>, <<433, 434, 1, 217>>, <<435, 437, 2, 1>>,
    <<439, 439, 1, 219>>, <<440, 440, 1, 1>>, <<444, 444, 1, 1>>, <<452, 452, 1, 2>>,
    <<453, 453, 1, 1>>, <<455, 455, 1, 2>>, <<456, 456, 1, 1>>, <<458, 458, 1, 2>>,
    <<459, 475, 2, 1>>, <<478, 494, 2, 1>>, <<497, 497, 1, 2>>, <<498, 500, 2, 1>>,
    <<502, 502, 1, -97>>, <<503, 503, 1, -56>>, <<504, 542, 2, 1>>, <<544, 544, 1, -130>>,
    <<546, 562, 2, 1>>, <<570, 570, 1, 10795>>, <<571, 571, 1, 1>>, <<573, 573, 1, -163>>,
    <<574, 574, 1, 10792>>, <<577, 577, 1, 1>>, <<579, 579, 1, -195>>, <<580, 580, 1, 69>>,
    <<581, 581, 1, 71>>, <<582, 590, 2, 1>>, <<880, 882, 2, 1>>, <<886, 886, 1, 1>>,
    <<895, 895, 1, 116>>, <<902, 902, 1, 38>>, <<904, 906, 1, 37>>, <<908, 908, 1, 64>>,
    <<910, 911, 1, 63>>, <<913, 929, 1, 32>>, <<931, 939, 1, 32>>, <<975, 975, 1, 8>>,
    <<984, 1006, 2, 1>>, <<1012, 1012, 1, -60>>, <<1015, 1015, 1, 1>>, <<1017, 1017, 1, -7>>,
    <<1018, 1018, 1, 1>>, <<1021, 1023, 1, -130>>, <<1024, 1039, 1, 80>>, <<1040, 1071, 1, 32>>,
    <<1120, 1152, 2, 1>>, <<1162, 1214, 2, 1>>, <<1216, 1216, 1, 15>>, <<1217, 1229, 2, 1>>,
    <<1232, 1326, 2, 1>>, <<1329, 1366, 1, 48>>, <<4256, 4293, 1, 7264>>, <<4295, 4295, 1, 7264>>,
    <<4301, 4301, 1, 7264>>, <<5024, 5103, 1, 38864>>, <<5104, 5109, 1, 8>>, <<7305, 7305, 1, 1>>,
    <<7312, 7354, 1, -3008>>, <<7357, 7359, 1, -3008>>, <<7680, 7828, 2, 1>>, <<7838, 7838, 1, -7615>>,
    <<7840, 7934, 2, 1>>, <<7944, 7951, 1, -8>>, <<7960, 7965, 1, -8>>, <<7976, 7983, 1, -8>>,
    <<7992, 7999, 1, -8>>, <<8008, 8013, 1, -8>>, <<8025, 8031, 2, -8>>, <<8040, 8047, 1, -8>>,
    <<8072, 8079, 1, -8>>, <<8088, 8095, 1, -8>>, <<8104, 8111, 1, -8>>, <<8120, 8121, 1, -8>>,
    <<8122, 8123, 1, -74>>, <<8124, 8124, 1, -9>>, <<8136, 8139, 1, -86>>, <<8140, 8140, 1, -9>>,
    <<8152, 8153, 1, -8>>, <<8154, 8155, 1, -100>>, <<8168, 8169, 1, -8>>, <<8170, 8171, 1, -112>>,
    <<8172, 8172, 1, -7>>, <<8184, 8185, 1, -128>>, <<8186, 8187, 1, -126>>, <<8188, 8188, 1, -9>>,
    <<8486, 8486, 1, -7517>>, <<8490, 8490, 1, -8383>>, <<8491, 8491, 1, -8262>>, <<8498, 8498, 1, 28>>,
    <<8544, 8559, 1, 16>>, <<8579, 8579, 1, 1>>, <<9398, 9423, 1, 26>>, <<11264, 11311, 1, 48>>,
    <<11360, 11360, 1, 1>>, <<11362, 11362, 1, -10743>>, <<11363, 11363, 1, -3814>>, <<11364, 11364, 1, -10727>>,
    <<11367, 11371, 2, 1>>, <<11373, 11373, 1, -10780>>, <<11374, 11374, 1, -10749>>, <<11375, 11375, 1, -10783>>,
    <<11376, 11376, 1, -10782>>, <<11378, 11378, 1, 1>>, <<11381, 11381, 1, 1>>, <<11390, 11391, 1, -10815>>,
    <<11392, 11490, 2, 1>>, <<11499, 11501, 2, 1>>, <<11506, 11506, 1, 1>>, <<42560, 42604, 2, 1>>,
    <<42624, 42650, 2, 1>>, <<42786, 42798, 2, 1>>, <<42802, 42862, 2, 1>>, <<42873, 42875, 2, 1>>,
    <<42877, 42877, 1, -35332>>, <<42878, 42886, 2, 1>>, <<42891, 42891, 1, 1>>, <<42893, 42893, 1, -42280>>,
    <<42896, 42898, 2, 1>>, <<42902, 42920, 2, 1>>, <<42922, 42922, 1, -42308>>, <<42923, 42923, 1, -42319>>,
    <<42924, 42924, 1, -42315>>, <<42925, 42925, 1, -42305>>, <<42926, 42926, 1, -42308>>, <<42928, 42928, 1, -42258>>,
    <<42929, 42929, 1, -42282>>, <<42930, 42930, 1, -42261>>, <<42931, 42931, 1, 928>>, <<42932, 42946, 2, 1>>,
    <<42948, 42948, 1, -48>>, <<42949, 42949, 1, -42307>>, <<42950, 42950, 1, -35384>>, <<42951, 42953, 2, 1>>,
    <<42955, 42955, 1, -42343>>, <<42956, 42970, 2, 1>>, <<42972, 42972, 1, -42561>>, <<42997, 42997, 1, 1>>,
    <<65313, 65338, 1, 32>>, <<66560, 66599, 1, 40>>, <<66736, 66771, 1, 40>>, <<66928, 66938, 1, 39>>,
    <<66940, 66954, 1, 39>>, <<66956, 66962, 1, 39>>, <<66964, 66965, 1, 39>>, <<68736, 68786, 1, 64>>,
    <<68944, 68965, 1, 32>>, <<71840, 71871, 1, 32>>, <<93760, 93791, 1, 32>>, <<93856, 93880, 1, 27>>,
    <<125184, 125217, 1, 34>> >>

\* core::unicode::Cased and Case_Ignorable (Unicode 17.0), by ranges
\* <<first, last>>.
CasedRanges == <<
    <<65, 90>>, <<97, 122>>, <<170, 170>>, <<181, 181>>, <<186, 186>>, <<192, 214>>,
    <<216, 246>>, <<248, 442>>, <<444, 447>>, <<452, 659>>, <<662, 696>>, <<704, 705>>,
    <<736, 740>>, <<837, 837>>, <<880, 883>>, <<886, 887>>, <<890, 893>>, <<895, 895>>,
    <<902, 902>>, <<904, 906>>, <<908, 908>>, <<910, 929>>, <<931, 1013>>, <<1015, 1153>>,
    <<1162, 1327>>, <<1329, 1366>>, <<1376, 1416>>, <<4256, 4293>>, <<4295, 4295>>, <<4301, 4301>>,
    <<4304, 4346>>, <<4348, 4351>>, <<5024, 5109>>, <<5112, 5117>>, <<7296, 7306>>, <<7312, 7354>>,
    <<7357, 7359>>, <<7424, 7615>>, <<7680, 7957>>, <<7960, 7965>>, <<7968, 8005>>, <<8008, 8013>>,
    <<8016, 8023>>, <<8025, 8025>>, <<8027, 8027>>, <<8029, 8029>>, <<8031, 8061>>, <<8064, 8116>>,
    <<8118, 8124>>, <<8126, 8126>>, <<8130, 8132>>, <<8134, 8140>>, <<8144, 8147>>, <<8150, 8155>>,
    <<8160, 8172>>, <<8178, 8180>>, <<8182, 8188>>, <<8305, 8305>>, <<8319, 8319>>, <<8336, 8348>>,
    <<8450, 8450>>, <<8455, 8455>>, <<8458, 8467>>, <<8469, 8469>>, <<8473, 8477>>, <<8484, 8484>>,
    <<8486, 8486>>, <<8488, 8488>>, <<8490, 8493>>, <<8495, 8500>>, <<8505, 8505>>, <<8508, 8511>>,
    <<8517, 8521>>, <<8526, 8526>>, <<8544, 8575>>, <<8579, 8580>>, <<9398, 9449>>, <<11264, 11492>>,
    <<11499, 11502>>, <<11506, 11507>>, <<11520, 11557>>, <<11559, 11559>>, <<11565, 11565>>, <<42560, 42605>>,
    <<42624, 42653>>, <<42786, 42887>>, <<42891, 42894>>, <<42896, 42972>>, <<42993, 42998>>, <<43000, 43002>>,
    <<43824, 43866>>, <<43868, 43881>>, <<43888, 43967>>, <<64256, 64262>>, <<64275, 64279>>, <<65313, 65338>>,
    <<65345, 65370>>, <<66560, 66639>>, <<66736, 66771>>, <<66776, 66811>>, <<66928, 66938>>, <<66940, 66954>>,
    <<66956, 66962>>, <<66964, 66965>>, <<66967, 66977>>, <<66979, 66993>>, <<66995, 67001>>, <<67003, 67004>>,
    <<67456, 67456>>, <<67459, 67461>>, <<67463, 67504>>, <<67506, 67514>>, <<68736, 68786>>, <<68800, 68850>>,
    <<68944, 68965>>, <<68976, 68997>>, <<71840, 71903>>, <<93760, 93823>>, <<93856, 93880>>, <<93883, 93907>>,
    <<119808, 119892>>, <<119894, 119964>>, <<119966, 119967>>, <<119970, 119970>>, <<119973, 119974>>, <<119977, 119980>>,
    <<119982, 119993>>, <<119995, 119995>>, <<119997, 120003>>, <<120005, 120069>>, <<120071, 120074>>, <<120077, 120084>>,
    <<120086, 120092>>, <<120094, 120121>>, <<120123, 120126>>, <<120128, 120132>>, <<120134, 120134>>, <<120138, 120144>>,
    <<120146, 120485>>, <<120488, 120512>>, <<120514, 120538>>, <<120540, 120570>>, <<120572, 120596>>, <<120598, 120628>>,
    <<120630, 120654>>, <<120656, 120686>>, <<120688, 120712>>, <<120714, 120744>>, <<120746, 120770>>, <<120772, 120779>>,
    <<122624, 122633>>, <<122635, 122654>>, <<122661, 122666>>, <<122928, 122989>>, <<125184, 125251>>, <<127280, 127305>>,
    <<127312, 127337>>, <<127344, 127369>> >>

CaseIgnorableRanges == <<
    <<39, 39>>, <<46, 46>>, <<58, 58>>, <<94, 94>>, <<96, 96>>, <<168, 168>>,
    <<173, 173>>, <<175, 175>>, <<180, 180>>, <<183, 184>>, <<688, 879>>, <<884, 885>>,
    <<890, 890>>, <<900, 901>>, <<903, 903>>, <<1155, 1161>>, <<1369, 1369>>, <<1375, 1375>>,
    <<1425, 1469>>, <<1471, 1471>>, <<1473, 1474>>, <<1476, 1477>>, <<1479, 1479>>, <<1524, 1524>>,
    <<1536, 1541>>, <<1552, 1562>>, <<1564, 1564>>, <<1600, 1600>>, <<1611, 1631>>, <<1648, 1648>>,
    <<1750, 1757>>, <<1759, 1768>>, <<1770, 1773>>, <<1807, 1807>>, <<1809, 1809>>, <<1840, 1866>>,
    <<1958, 1968>>, <<2027, 2037>>, <<2042, 2042>>, <<2045, 2045>>, <<2070, 2093>>, <<2137, 2139>>,
    <<2184, 2184>>, <<2192, 2193>>, <<2199, 2207>>, <<2249, 2306>>, <<2362, 2362>>, <<2364, 2364>>,
    <<2369, 2376>>, <<2381, 2381>>, <<2385, 2391>>, <<2402, 2403>>, <<2417, 2417>>, <<2433, 2433>>,
    <<2492, 2492>>, <<2497, 2500>>, <<2509, 2509>>, <<2530, 2531>>, <<2558, 2558>>, <<2561, 2562>>,
    <<2620, 2620>>, <<2625, 2626>>, <<2631, 2632>>, <<2635, 2637>>, <<2641, 2641>>, <<2672, 2673>>,
    <<2677, 2677>>, <<2689, 2690>>, <<2748, 2748>>, <<2753, 2757>>, <<2759, 2760>>, <<2765, 2765>>,
    <<2786, 2787>>, <<2810, 2815>>, <<2817, 2817>>, <<2876, 2876>>, <<2879, 2879>>, <<2881, 2884>>,
    <<2893, 2893>>, <<2901, 2902>>, <<2914, 2915>>, <<2946, 2946>>, <<3008, 3008>>, <<3021, 3021>>,
    <<3072, 3072>>, <<3076, 3076>>, <<3132, 3132>>, <<3134, 3136>>, <<3142, 3144>>, <<3146, 3149>>,
    <<3157, 3158>>, <<3170, 3171>>, <<3201, 3201>>, <<3260, 3260>>, <<3263, 3263>>, <<3270, 3270>>,
    <<3276, 3277>>, <<3298, 3299>>, <<3328, 3329>>, <<3387, 3388>>, <<3393, 3396>>, <<3405, 3405>>,
    <<3426, 3427>>, <<3457, 3457>>, <<3530, 3530>>, <<3538, 3540>>, <<3542, 3542>>, <<3633, 3633>>,
    <<3636, 3642>>, <<3654, 3662>>, <<3761, 3761>>, <<3764, 3772>>, <<3782, 3782>>, <<3784, 3790>>,
    <<3864, 3865>>, <<3893, 3893>>, <<3895, 3895>>, <<3897, 3897>>, <<3953, 3966>>, <<3968, 3972>>,
    <<3974, 3975>>, <<3981, 3991>>, <<3993, 4028>>, <<4038, 4038>>, <<4141, 4144>>, <<4146, 4151>>,
    <<4153, 4154>>, <<4157, 4158>>, <<4184, 4185>>, <<4190, 4192>>, <<4209, 4212>>, <<4226, 4226>>,
    <<4229, 4230>>, <<4237, 4237>>, <<4253, 4253>>, <<4348, 4348>>, <<4957, 4959>>, <<5906, 5908>>,
    <<5938, 5939>>, <<5970, 5971>>, <<6002, 6003>>, <<6068, 6069>>, <<6071, 6077>>, <<6086, 6086>>,
    <<6089, 6099>>, <<6103, 6103>>, <<6109, 6109>>, <<6155, 6159>>, <<6211, 6211>>, <<6277, 6278>>,
    <<6313, 6313>>, <<6432, 6434>>, <<6439, 6440>>, <<6450, 6450>>, <<6457, 6459>>, <<6679, 6680>>,
    <<6683, 6683>>, <<6742, 6742>>, <<6744, 6750>>, <<6752, 6752>>, <<6754, 6754>>, <<6757, 6764>>,
    <<6771, 6780>>, <<6783, 6783>>, <<6823, 6823>>, <<6832, 6877>>, <<6880, 6891>>, <<6912, 6915>>,
    <<6964, 6964>>, <<6966, 6970>>, <<6972, 6972>>, <<6978, 6978>>, <<7019, 7027>>, <<7040, 7041>>,
    <<7074, 7077>>, <<7080, 7081>>, <<7083, 7085>>, <<7142, 7142>>, <<7144, 7145>>, <<7149, 7149>>,
    <<7151, 7153>>, <<7212, 7219>>, <<7222, 7223>>, <<7288, 7293>>, <<7376, 7378>>, <<7380, 7392>>,
    <<7394, 7400>>, <<7405, 7405>>, <<7412, 7412>>, <<7416, 7417>>, <<7468, 7530>>, <<7544, 7544>>,
    <<7579, 7679>>, <<8125, 8125>>, <<8127, 8129>>, <<8141, 8143>>, <<8157, 8159>>, <<8173, 8175>>,
    <<8189, 8190>>, <<8203, 8207>>, <<8216, 8217>>, <<8228, 8228>>, <<8231, 8231>>, <<8234, 8238>>,
    <<8288, 8292>>, <<8294, 8303>>, <<8305, 8305>>, <<8319, 8319>>, <<8336, 8348>>, <<8400, 8432>>,
    <<11388, 11389>>, <<11503, 11505>>, <<11631, 11631>>, <<11647, 11647>>, <<11744, 11775>>, <<11823, 11823>>,
    <<12293, 12293>>, <<12330, 12333>>, <<12337, 12341>>, <<12347, 12347>>, <<12441, 12446>>, <<12540, 12542>>,
    <<40981, 40981>>, <<42232, 42237>>, <<42508, 42508>>, <<42607, 42610>>, <<42612, 42621>>, <<42623, 42623>>,
    <<42652, 42655>>, <<42736, 42737>>, <<42752, 42785>>, <<42864, 42864>>, <<42888, 42890>>, <<42993, 42996>>,
    <<43000, 43001>>, <<43010, 43010>>, <<43014, 43014>>, <<43019, 43019>>, <<43045, 43046>>, <<43052, 43052>>,
    <<43204, 43205>>, <<43232, 43249>>, <<43263, 43263>>, <<43302, 43309>>, <<43335, 43345>>, <<43392, 43394>>,
    <<43443, 43443>>, <<43446, 43449>>, <<43452, 43453>>, <<43471, 43471>>, <<43493, 43494>>, <<43561, 43566>>,
    <<43569, 43570>>, <<43573, 43574>>, <<43587, 43587>>, <<43596, 43596>>, <<43632, 43632>>, <<43644, 43644>>,
    <<43696, 43696>>, <<43698, 43700>>, <<43703, 43704>>, <<43710, 43711>>, <<43713, 43713>>, <<43741, 43741>>,
    <<43756, 43757>>, <<43763, 43764>>, <<43766, 43766>>, <<43867, 43871>>, <<43881, 43883>>, <<44005, 44005>>,
    <<44008, 44008>>, <<44013, 44013>>, <<64286, 64286>>, <<64434, 64450>>, <<65024, 65039>>, <<65043, 65043>>,
    <<65056, 65071>>, <<65106, 65106>>, <<65109, 65109>>, <<65279, 65279>>, <<65287, 65287>>, <<65294, 65294>>,
    <<65306, 65306>>, <<65342, 65342>>, <<65344, 65344>>, <<65392, 65392>>, <<65438, 65439>>, <<65507, 65507>>,
    <<65529, 65531>>, <<66045, 66045>>, <<66272, 66272>>, <<66422, 66426>>, <<67456, 67461>>, <<67463, 67504>>,
    <<67506, 67514>>, <<68097, 68099>>, <<68101, 68102>>, <<68108, 68111>>, <<68152, 68154>>, <<68159, 68159>>,
    <<68325, 68326>>, <<68900, 68903>>, <<68942, 68942>>, <<68969, 68973>>, <<68975, 68975>>, <<69291, 69292>>,
    <<69317, 69317>>, <<69370, 69375>>, <<69446, 69456>>, <<69506, 69509>>, <<69633, 69633>>, <<69688, 69702>>,
    <<69744, 69744>>, <<69747, 69748>>, <<69759, 69761>>, <<69811, 69814>>, <<69817, 69818>>, <<69821, 69821>>,
    <<69826, 69826>>, <<69837, 69837>>, <<69888, 69890>>, <<69927, 69931>>, <<69933, 69940>>, <<70003, 70003>>,
    <<70016, 70017>>, <<70070, 70078>>, <<70089, 70092>>, <<70095, 70095>>, <<70191, 70193>>, <<70196, 70196>>,
    <<70198, 70199>>, <<70206, 70206>>, <<70209, 70209>>, <<70367, 70367>>, <<70371, 70378>>, <<70400, 70401>>,
    <<70459, 70460>>, <<70464, 70464>>, <<70502, 70508>>, <<70512, 70516>>, <<70587, 70592>>, <<70606, 70606>>,
    <<70608, 70608>>, <<70610, 70610>>, <<70625, 70626>>, <<70712, 70719>>, <<70722, 70724>>, <<70726, 70726>>,
    <<70750, 70750>>, <<70835, 70840>>, <<70842, 70842>>, <<70847, 70848>>, <<70850, 70851>>, <<71090, 71093>>,
    <<71100, 71101>>, <<71103, 71104>>, <<71132, 71133>>, <<71219, 71226>>, <<71229, 71229>>, <<71231, 71232>>,
    <<71339, 71339>>, <<71341, 71341>>, <<71344, 71349>>, <<71351, 71351>>, <<71453, 71453>>, <<71455, 71455>>,
    <<71458, 71461>>, <<71463, 71467>>, <<71727, 71735>>, <<71737, 71738>>, <<71995, 71996>>, <<71998, 71998>>,
    <<72003, 72003>>, <<72148, 72151>>, <<72154, 72155>>, <<72160, 72160>>, <<72193, 72202>>, <<72243, 72248>>,
    <<72251, 72254>>, <<72263, 72263>>, <<72273, 72278>>, <<72281, 72283>>, <<72330, 72342>>, <<72344, 72345>>,
    <<72544, 72544>>, <<72546, 72548>>, <<72550, 72550>>, <<72752, 72758>>, <<72760, 72765>>, <<72767, 72767>>,
    <<72850, 72871>>, <<72874, 72880>>, <<72882, 72883>>, <<72885, 72886>>, <<73009, 73014>>, <<73018, 73018>>,
    <<73020, 73021>>, <<73023, 73029>>, <<73031, 73031>>, <<73104, 73105>>, <<73109, 73109>>, <<73111, 73111>>,
    <<73177, 73177>>, <<73459, 73460>>, <<73472, 73473>>, <<73526, 73530>>, <<73536, 73536>>, <<73538, 73538>>,
    <<73562, 73562>>, <<78896, 78912>>, <<78919, 78933>>, <<90398, 90409>>, <<90413, 90415>>, <<92912, 92916>>,
    <<92976, 92982>>, <<92992, 92995>>, <<93504, 93506>>, <<93547, 93548>>, <<94031, 94031>>, <<94095, 94111>>,
    <<94176, 94177>>, <<94179, 94180>>, <<94194, 94195>>, <<110576, 110579>>, <<110581, 110587>>, <<110589, 110590>>,
    <<113821, 113822>>, <<113824, 113827>>, <<118528, 118573>>, <<118576, 118598>>, <<119143, 119145>>, <<119155, 119170>>,
    <<119173, 119179>>, <<119210, 119213>>, <<119362, 119364>>, <<121344, 121398>>, <<121403, 121452>>, <<121461, 121461>>,
    <<121476, 121476>>, <<121499, 121503>>, <<121505, 121519>>, <<122880, 122886>>, <<122888, 122904>>, <<122907, 122913>>,
    <<122915, 122916>>, <<122918, 122922>>, <<122928, 122989>>, <<123023, 123023>>, <<123184, 123197>>, <<123566, 123566>>,
    <<123628, 123631>>, <<124139, 124143>>, <<124398, 124399>>, <<124643, 124643>>, <<124646, 124646>>, <<124654, 124655>>,
    <<124661, 124661>>, <<124671, 124671>>, <<125136, 125142>>, <<125252, 125259>>, <<127995, 127999>>, <<917505, 917505>>,
    <<917536, 917631>>, <<917760, 917999>> >>

InRanges(c, ranges) == \E k \in 1..Len(ranges) : ranges[k][1] <= c /\ c <= ranges[k][2]

LowercaseRange(c) ==
    {k \in 1..Len(LowercaseRanges) :
        /\ LowercaseRanges[k][1] <= c
        /\ c <= LowercaseRanges[k][2]
        /\ (c - LowercaseRanges[k][1]) % LowercaseRanges[k][3] = 0}

ToLowerIn(c, found) ==
    IF found = {} THEN c ELSE c + LowercaseRanges[CHOOSE k \in found : TRUE][4]

\* U+0130 is the one character with a lowercase of two characters.
ToLowerChar(c) ==
    IF c = 304 THEN <<105, 775>> ELSE <<ToLowerIn(c, LowercaseRange(c))>>

\* case_ignorable_then_cased over the characters before i (towards the
\* start) and after i: every Case_Ignorable character is skipped, also one
\* that is Cased, and the first character that is left is Cased.
CasedBefore(text, i) ==
    \E j \in 1..(i - 1) :
        /\ ~InRanges(text[j], CaseIgnorableRanges)
        /\ InRanges(text[j], CasedRanges)
        /\ \A m \in (j + 1)..(i - 1) : InRanges(text[m], CaseIgnorableRanges)

CasedAfter(text, i) ==
    \E j \in (i + 1)..Len(text) :
        /\ ~InRanges(text[j], CaseIgnorableRanges)
        /\ InRanges(text[j], CasedRanges)
        /\ \A m \in (i + 1)..(j - 1) : InRanges(text[m], CaseIgnorableRanges)

\* map_uppercase_sigma: a capital sigma at the end of a word becomes the
\* final sigma.
LowerSigma(text, i) == IF CasedBefore(text, i) /\ ~CasedAfter(text, i) THEN 962 ELSE 963

\* str::to_lowercase and str::ends_with.
ToLowercase(text) ==
    Flatten([k \in 1..Len(text) |->
                IF text[k] = 931 THEN <<LowerSigma(text, k)>> ELSE ToLowerChar(text[k])],
            1, Len(text))

EndsWith(text, suffix) ==
    /\ Len(text) >= Len(suffix)
    /\ SubSeq(text, Len(text) - Len(suffix) + 1, Len(text)) = suffix

ExtNbz == <<46, 110, 98, 122>>
ExtSpb == <<46, 115, 112, 98>>
ExtWav == <<46, 119, 97, 118>>
ExtBmp == <<46, 98, 109, 112>>

(***************************************************************************)
(* The bzip2 library behind BzEncoder / BzDecoder (libbz2 1.0.8): the      *)
(* stream format and the compressor's choices, so that the bytes of a      *)
(* stream and its length are the ones the archive holds.                   *)
(***************************************************************************)
\* The level of bzip2::Compression::best().
BzLevel == 9

\* Symbols of one Huffman group (BZ_G_SIZE), the tables are refined
\* BZ_N_ITERS times, the longest code the compressor emits and the longest
\* the decoder accepts, the selectors the decoder keeps.
BzGroupSize == 50
BzIterations == 4
BzMaxCodeLen == 17
BzMaxDecodeLen == 20
BzMaxSelectors == 18002
\* BZ2_blockSort: if (nblock < 10000) fallbackSort, else mainSort.
BzMainSortFrom == 10000

XorBits(a, b) == Strict([k \in 1..Len(a) |-> (a[k] + b[k]) % 2])

AllOnes == [k \in 1..32 |-> 1]

AllZeros == [k \in 1..32 |-> 0]

\* The CRC of bzip2: CRC-32 with polynomial 0x04C11DB7, most significant
\* bit first, as a sequence of 32 bits.
BzCrcPoly ==
    <<0, 0, 0, 0, 0, 1, 0, 0, 1, 1, 0, 0, 0, 0, 0, 1,
      0, 0, 0, 1, 1, 1, 0, 1, 1, 0, 1, 1, 0, 1, 1, 1>>

BzCrcShift(crc) ==
    IF crc[1] = 1 THEN XorBits(Tail(crc) \o <<0>>, BzCrcPoly) ELSE Tail(crc) \o <<0>>

\* BZ2_crc32Table: the register after a byte went through it alone, the
\* entry of byte i at i + 1.
BzCrcTable ==
    Strict([i \in 1..256 |->
        BzCrcShift(BzCrcShift(BzCrcShift(BzCrcShift(BzCrcShift(BzCrcShift(BzCrcShift(
            BzCrcShift(bsW(8, i - 1) \o [k \in 1..24 |-> 0]))))))))])

\* BZ_UPDATE_CRC: crc = (crc << 8) ^ table[(crc >> 24) ^ byte]
BzCrcByte(crc, byte) ==
    XorBits(SubSeq(crc, 9, 32) \o [k \in 1..8 |-> 0],
            BzCrcTable[Field(XorBits(SubSeq(crc, 1, 8), bsW(8, byte)), 0, 8) + 1])

\* The register as the bytes of data go through it, [crc, at]: each turn
\* takes the byte at `at`.
RECURSIVE BzCrcLoop(_, _, _)
BzCrcLoop(data, st, k) ==
    IF k = 0 \/ st.at > Len(data) THEN st
    ELSE IF k = 1 THEN [crc |-> BzCrcByte(st.crc, data[st.at]), at |-> st.at + 1]
    ELSE BzCrcLoop(data, BzCrcLoop(data, st, k \div 2), k - (k \div 2))

BzCrc(data) ==
    XorBits(BzCrcLoop(data, [crc |-> AllOnes, at |-> 1], Len(data)).crc, AllOnes)

\* combinedCRC = (combinedCRC << 1 | combinedCRC >> 31) ^ blockCRC
BzCombine(combined, crc) == XorBits(Tail(combined) \o <<combined[1]>>, crc)

\* The first run-length pass, [i, block]: each turn takes the run that
\* starts at i; a run of 4..255 equal bytes becomes four of them and a
\* count byte.
BzRunEnd(data, i) ==
    CHOOSE j \in i..(IF Len(data) < i + 254 THEN Len(data) ELSE i + 254) :
        /\ \A k \in i..j : data[k] = data[i]
        /\ j = Len(data) \/ data[j + 1] # data[i] \/ j - i = 254

BzRun(byte, run) ==
    IF run < 4 THEN [k \in 1..run |-> byte] ELSE <<byte, byte, byte, byte, run - 4>>

BzRle1Step(data, st, end) ==
    [i |-> end + 1, block |-> st.block \o BzRun(data[st.i], end - st.i + 1)]

RECURSIVE BzRle1Loop(_, _, _)
BzRle1Loop(data, st, k) ==
    IF k = 0 \/ st.i > Len(data) THEN st
    ELSE IF k = 1 THEN BzRle1Step(data, st, BzRunEnd(data, st.i))
    ELSE BzRle1Loop(data, BzRle1Loop(data, st, k \div 2), k - (k \div 2))

BzRle1(data) == BzRle1Loop(data, [i |-> 1, block |-> <<>>], Len(data)).block

\* The block sort of a block under BzMainSortFrom bytes (blocksort.c,
\* fallbackSort); BZ2_blockSort sorts a longer block with mainSort, which
\* leaves equal rotations in another order and is not part of the model.
\* fmap holds the starts of the rotations, counted from 0, and eclass[s + 1]
\* is the key of the rotation that starts at s.  Rotations that are equal
\* never get different keys: where they end up is what the sort does to
\* them.

\* fallbackSimpleSort: the element at i goes behind the elements at i + step,
\* i + 2 step, ... whose keys are lower than its own; passed counts them.
BzPassed(f, eclass, i, step) ==
    Cardinality({q \in 1..((Len(f) - i) \div step) :
                    \A p \in 1..q : eclass[f[i] + 1] > eclass[f[i + p * step] + 1]})

BzInsert(f, eclass, i, step, passed) ==
    Strict([j \in 1..Len(f) |->
               IF j >= i /\ j < i + passed * step /\ (j - i) % step = 0 THEN f[j + step]
               ELSE IF j = i + passed * step THEN f[i]
               ELSE f[j]])

\* for ( i = hi-step; i >= lo; i-- ), [f, i]
RECURSIVE BzInsertLoop(_, _, _, _)
BzInsertLoop(eclass, step, st, k) ==
    IF k = 0 \/ st.i < 1 THEN st
    ELSE IF k = 1
         THEN [f |-> BzInsert(st.f, eclass, st.i, step, BzPassed(st.f, eclass, st.i, step)),
               i |-> st.i - 1]
    ELSE BzInsertLoop(eclass, step, BzInsertLoop(eclass, step, st, k \div 2), k - (k \div 2))

BzInsertAll(f, eclass, step) ==
    BzInsertLoop(eclass, step, [f |-> f, i |-> Len(f) - step], Len(f)).f

fallbackSimpleSort(f, eclass) ==
    BzInsertAll(IF Len(f) - 1 > 3 THEN BzInsertAll(f, eclass, 4) ELSE f, eclass, 1)

FALLBACK_QSORT_SMALL_THRESH == 10

fswap(f, a, b) == [f EXCEPT ![a] = f[b], ![b] = f[a]]

fvswap(f, p1, p2, n) ==
    Strict([j \in 1..Len(f) |->
               IF p1 <= j /\ j < p1 + n THEN f[j - p1 + p2]
               ELSE IF p2 <= j /\ j < p2 + n THEN f[j - p2 + p1]
               ELSE f[j]])

\* The partition of fallbackQSort3 around med, [f, unLo, unHi, ltLo, gtHi,
\* down]: one turn of the scan from the left or, with down set, of the scan
\* from the right, which ends in the swap of the two elements out of place.
BzScanUp(eclass, med, st) ==
    IF eclass[st.f[st.unLo] + 1] = med
    THEN [st EXCEPT !.f = fswap(st.f, st.unLo, st.ltLo), !.ltLo = @ + 1, !.unLo = @ + 1]
    ELSE IF eclass[st.f[st.unLo] + 1] > med THEN [st EXCEPT !.down = TRUE]
    ELSE [st EXCEPT !.unLo = @ + 1]

BzScanDown(eclass, med, st) ==
    IF eclass[st.f[st.unHi] + 1] = med
    THEN [st EXCEPT !.f = fswap(st.f, st.unHi, st.gtHi), !.gtHi = @ - 1, !.unHi = @ - 1]
    ELSE IF eclass[st.f[st.unHi] + 1] < med
         THEN [st EXCEPT !.f = fswap(st.f, st.unLo, st.unHi),
                         !.unLo = @ + 1, !.unHi = @ - 1, !.down = FALSE]
    ELSE [st EXCEPT !.unHi = @ - 1]

RECURSIVE BzPartitionLoop(_, _, _, _)
BzPartitionLoop(eclass, med, st, k) ==
    IF k = 0 \/ st.unLo > st.unHi THEN st
    ELSE IF k = 1
         THEN IF st.down THEN BzScanDown(eclass, med, st) ELSE BzScanUp(eclass, med, st)
    ELSE BzPartitionLoop(eclass, med, BzPartitionLoop(eclass, med, st, k \div 2),
                         k - (k \div 2))

BzPartition(f, eclass, med) ==
    BzPartitionLoop(eclass, med,
                    [f |-> f, unLo |-> 1, unHi |-> Len(f), ltLo |-> 1, gtHi |-> Len(f),
                     down |-> FALSE],
                    2 * Len(f))

Smaller(a, b) == IF a < b THEN a ELSE b

\* The elements equal to med, parked at both ends, go to the middle.
BzGather(p) ==
    fvswap(fvswap(p.f, 1, p.unLo - Smaller(p.ltLo - 1, p.unLo - p.ltLo),
                  Smaller(p.ltLo - 1, p.unLo - p.ltLo)),
           p.unLo, Len(p.f) - Smaller(Len(p.f) - p.gtHi, p.gtHi - p.unHi) + 1,
           Smaller(Len(p.f) - p.gtHi, p.gtHi - p.unHi))

\* r = ((r * 7621) + 1) % 32768 picks the element med is taken from.
BzNextRandom(r) == ((r * 7621) + 1) % 32768

BzMedian(f, eclass, r) ==
    eclass[f[IF r % 3 = 0 THEN 1
             ELSE IF r % 3 = 1 THEN ((Len(f) - 1) \div 2) + 1
             ELSE Len(f)] + 1]

\* fallbackQSort3 on the elements of one bucket, [f, r]: the shorter of the
\* two sides is on top of the stack and sorted first, and r runs on from one
\* partition to the next.
RECURSIVE fallbackQSort3(_, _, _)
BzSortSides(p, g, eclass, r) ==
    LET nlt == p.unLo - p.ltLo
        ngt == p.gtHi - p.unHi
        lt == SubSeq(g, 1, nlt)
        eq == SubSeq(g, nlt + 1, Len(g) - ngt)
        gt == SubSeq(g, Len(g) - ngt + 1, Len(g))
        ltFirst == fallbackQSort3(lt, eclass, r)
        gtSecond == fallbackQSort3(gt, eclass, ltFirst.r)
        gtFirst == fallbackQSort3(gt, eclass, r)
        ltSecond == fallbackQSort3(lt, eclass, gtFirst.r)
    IN  IF nlt > ngt
        THEN [f |-> ltSecond.f \o eq \o gtFirst.f, r |-> ltSecond.r]
        ELSE [f |-> ltFirst.f \o eq \o gtSecond.f, r |-> gtSecond.r]

BzSortAround(p, eclass, r) ==
    IF p.gtHi < p.ltLo THEN [f |-> p.f, r |-> r]
    ELSE BzSortSides(p, BzGather(p), eclass, r)

fallbackQSort3(f, eclass, r) ==
    IF Len(f) - 1 < FALLBACK_QSORT_SMALL_THRESH
    THEN [f |-> fallbackSimpleSort(f, eclass), r |-> r]
    ELSE BzSortAround(BzPartition(f, eclass, BzMedian(f, eclass, BzNextRandom(r))),
                      eclass, BzNextRandom(r))

\* The radix sort on the first byte: the starts by byte, and within one
\* byte the later start first.
BzRadixRank(block) ==
    Strict([s \in 1..Len(block) |->
               Cardinality({t \in 1..Len(block) :
                               \/ block[t] < block[s]
                               \/ block[t] = block[s] /\ t > s})])

BzRadix(block, rank) ==
    Strict([r \in 1..Len(block) |-> (CHOOSE s \in 1..Len(block) : rank[s] = r - 1) - 1])

\* bh[i] is set where a bucket begins.
BzFirstBits(block, fmap) ==
    Strict([i \in 1..Len(block) |->
               i = 1 \/ block[fmap[i] + 1] # block[fmap[i - 1] + 1]])

BzHead(bh, i) == CHOOSE j \in 1..i : bh[j] /\ \A m \in (j + 1)..i : ~bh[m]

BzBucketEnd(bh, l) ==
    CHOOSE r \in l..Len(bh) : (r = Len(bh) \/ bh[r + 1]) /\ \A m \in (l + 1)..r : ~bh[m]

\* eclass[k] = j: the key of a rotation is the bucket of the rotation H
\* places behind it.
BzEclass(fmap, bh, H) ==
    LET n == Len(fmap)
        pos == Strict([s \in 1..n |-> CHOOSE i \in 1..n : fmap[i] = s - 1])
        head == Strict([i \in 1..n |-> BzHead(bh, i) - 1])
    IN  Strict([k \in 1..n |-> head[pos[((k - 1 + H) % n) + 1]]])

BzSortBucket(fmap, eclass, l, r) ==
    IF r = l THEN <<fmap[l]>> ELSE fallbackQSort3(SubSeq(fmap, l, r), eclass, 0).f

BzSortBuckets(fmap, bh, eclass) ==
    Flatten([l \in 1..Len(fmap) |->
                IF bh[l] THEN BzSortBucket(fmap, eclass, l, BzBucketEnd(bh, l)) ELSE <<>>],
            1, Len(fmap))

\* One turn of the log(N) loop, [fmap, bh, H, nNotDone].
BzScanBits(fmap, bh, eclass) ==
    Strict([i \in 1..Len(fmap) |-> bh[i] \/ eclass[fmap[i] + 1] # eclass[fmap[i - 1] + 1]])

BzRefineBuckets(st, eclass, fmap) ==
    [fmap |-> fmap, bh |-> BzScanBits(fmap, st.bh, eclass), H |-> 2 * st.H,
     nNotDone |-> Cardinality({i \in 1..Len(fmap) : ~st.bh[i]})]

BzRound(st, eclass) ==
    BzRefineBuckets(st, eclass, Strict(BzSortBuckets(st.fmap, st.bh, eclass)))

RECURSIVE BzRounds(_)
BzRoundsOn(next) ==
    IF next.H > Len(next.fmap) \/ next.nNotDone = 0 THEN next.fmap ELSE BzRounds(next)

BzRounds(st) == BzRoundsOn(BzRound(st, BzEclass(st.fmap, st.bh, st.H)))

BzSortFrom(block, fmap) ==
    BzRounds([fmap |-> fmap, bh |-> BzFirstBits(block, fmap), H |-> 1, nNotDone |-> 0])

fallbackSort(block) == BzSortFrom(block, BzRadix(block, BzRadixRank(block)))

\* [last: the byte in front of each rotation in sorted order, origPtr: where
\* the rotation that starts at 0 lies]
BzSortedBy(block, fmap) ==
    [last |-> Strict([r \in 1..Len(block) |->
                        block[((fmap[r] + Len(block) - 1) % Len(block)) + 1]]),
     origPtr |-> (CHOOSE i \in 1..Len(block) : fmap[i] = 0) - 1]

BzBlockSort(block) == BzSortedBy(block, fallbackSort(block))

\* The bytes in use, ascending (seqToUnseq).
BzSetInOrder(used) ==
    Strict([r \in 1..Cardinality(used) |->
               CHOOSE b \in used : Cardinality({c \in used : c < b}) = r - 1])

BzInUse(block) == BzSetInOrder({block[k] : k \in 1..Len(block)})

IndexOf(seq, v) == CHOOSE k \in 1..Len(seq) : seq[k] = v

MoveToFront(yy, j) == <<yy[j]>> \o SubSeq(yy, 1, j - 1) \o SubSeq(yy, j + 1, Len(yy))

\* A run of zeros as RUNA (0) / RUNB (1) symbols, zPend - 1 given.
RECURSIVE BzRunSymbols(_)
BzRunSymbols(z) == <<z % 2>> \o (IF z < 2 THEN <<>> ELSE BzRunSymbols((z - 2) \div 2))

BzFlushRun(zPend) == IF zPend > 0 THEN BzRunSymbols(zPend - 1) ELSE <<>>

\* generateMTFValues, [i, yy, zPend, mtfv]: move-to-front positions with
\* runs of position 0 coded as RUNA/RUNB, closed by the end-of-block
\* symbol.
BzMtfStep(last, st) ==
    IF st.yy[1] = last[st.i] THEN [st EXCEPT !.i = @ + 1, !.zPend = @ + 1]
    ELSE [i |-> st.i + 1,
          yy |-> MoveToFront(st.yy, IndexOf(st.yy, last[st.i])),
          zPend |-> 0,
          mtfv |-> st.mtfv \o BzFlushRun(st.zPend) \o <<IndexOf(st.yy, last[st.i])>>]

RECURSIVE BzMtfLoop(_, _, _)
BzMtfLoop(last, st, k) ==
    IF k = 0 \/ st.i > Len(last) THEN st
    ELSE IF k = 1 THEN BzMtfStep(last, st)
    ELSE BzMtfLoop(last, BzMtfLoop(last, st, k \div 2), k - (k \div 2))

BzMtfClosed(st, eob) == st.mtfv \o BzFlushRun(st.zPend) \o <<eob>>

generateMTFValues(last, used) ==
    BzMtfClosed(BzMtfLoop(last, [i |-> 1, yy |-> used, zPend |-> 0, mtfv |-> <<>>],
                          Len(last)),
                Len(used) + 1)

\* BZ2_hbMakeCodeLengths: the heap of node numbers ordered by weight.
RECURSIVE BzUpHeap(_, _, _, _)
BzUpHeap(heap, weight, zz, tmp) ==
    IF weight[tmp] < weight[heap[zz \div 2]]
    THEN BzUpHeap([heap EXCEPT ![zz] = heap[zz \div 2]], weight, zz \div 2, tmp)
    ELSE [heap EXCEPT ![zz] = tmp]

BzLighterChild(heap, weight, nHeap, left) ==
    IF left < nHeap /\ weight[heap[left + 1]] < weight[heap[left]] THEN left + 1 ELSE left

RECURSIVE BzDownHeap(_, _, _, _, _)
BzSink(heap, weight, nHeap, zz, tmp, yy) ==
    IF weight[tmp] < weight[heap[yy]] THEN [heap EXCEPT ![zz] = tmp]
    ELSE BzDownHeap([heap EXCEPT ![zz] = heap[yy]], weight, nHeap, yy, tmp)

BzDownHeap(heap, weight, nHeap, zz, tmp) ==
    IF 2 * zz > nHeap THEN [heap EXCEPT ![zz] = tmp]
    ELSE BzSink(heap, weight, nHeap, zz, tmp, BzLighterChild(heap, weight, nHeap, 2 * zz))

\* heap[1] taken out: heap[1] = heap[nHeap], nHeap - 1, DOWNHEAP(1).
BzPop(heap, weight, nHeap) ==
    BzDownHeap([heap EXCEPT ![1] = heap[nHeap]], weight, nHeap - 1, 1, heap[nHeap])

AddWeights(w1, w2) ==
    ((w1 \div 256) + (w2 \div 256)) * 256 + 1 + Max(w1 % 256, w2 % 256)

\* The symbols enter the heap one by one, [heap, nHeap].
RECURSIVE BzFillHeap(_, _, _, _)
BzFillHeap(weight, alphaSize, st, k) ==
    IF k = 0 \/ st.nHeap = alphaSize THEN st
    ELSE IF k = 1
    THEN [heap |-> BzUpHeap([st.heap EXCEPT ![st.nHeap + 1] = st.nHeap + 1], weight,
                            st.nHeap + 1, st.nHeap + 1),
          nHeap |-> st.nHeap + 1]
    ELSE BzFillHeap(weight, alphaSize, BzFillHeap(weight, alphaSize, st, k \div 2),
                    k - (k \div 2))

\* The two lightest nodes joined under a new node until one is left,
\* [heap, weight, parent, nHeap, nNodes].
BzJoined(st, n1, n2, heap2, node, sum) ==
    [heap |-> BzUpHeap([heap2 EXCEPT ![st.nHeap - 1] = node],
                       [st.weight EXCEPT ![node] = sum], st.nHeap - 1, node),
     weight |-> [st.weight EXCEPT ![node] = sum],
     parent |-> [st.parent EXCEPT ![n1] = node, ![n2] = node, ![node] = -1],
     nHeap |-> st.nHeap - 1,
     nNodes |-> node]

BzJoin(st, heap1) ==
    BzJoined(st, st.heap[1], heap1[1], BzPop(heap1, st.weight, st.nHeap - 1),
             st.nNodes + 1, AddWeights(st.weight[st.heap[1]], st.weight[heap1[1]]))

RECURSIVE BzBuildTree(_, _)
BzBuildTree(st, k) ==
    IF k = 0 \/ st.nHeap <= 1 THEN st
    ELSE IF k = 1 THEN BzJoin(st, BzPop(st.heap, st.weight, st.nHeap))
    ELSE BzBuildTree(BzBuildTree(st, k \div 2), k - (k \div 2))

RECURSIVE BzDepth(_, _)
BzDepth(parent, k) == IF parent[k] < 0 THEN 0 ELSE 1 + BzDepth(parent, parent[k])

BzLeafWeights(leaf, alphaSize) ==
    [k \in 0..(2 * alphaSize) |-> IF k >= 1 /\ k <= alphaSize THEN leaf[k] ELSE 0]

BzTreeOf(weight, alphaSize) ==
    BzBuildTree([heap |-> BzFillHeap(weight, alphaSize,
                                     [heap |-> [k \in 0..(alphaSize + 1) |-> 0], nHeap |-> 0],
                                     alphaSize).heap,
                 weight |-> weight,
                 parent |-> [k \in 0..(2 * alphaSize) |-> IF k = 0 THEN -2 ELSE -1],
                 nHeap |-> alphaSize,
                 nNodes |-> alphaSize],
                alphaSize).parent

BzDepths(parent, alphaSize) == Strict([i \in 1..alphaSize |-> BzDepth(parent, i)])

\* The lengths are taken unless one is too long: then the weights are
\* halved and the tree is built again.
RECURSIVE BzCodeLengths(_, _, _)
BzAccept(leaf, alphaSize, maxLen, len) ==
    IF \A i \in 1..alphaSize : len[i] <= maxLen THEN len
    ELSE BzCodeLengths(Strict([i \in 1..alphaSize |-> (1 + ((leaf[i] \div 256) \div 2)) * 256]),
                       alphaSize, maxLen)

BzCodeLengths(leaf, alphaSize, maxLen) ==
    BzAccept(leaf, alphaSize, maxLen,
             BzDepths(BzTreeOf(BzLeafWeights(leaf, alphaSize), alphaSize), alphaSize))

\* freq and the result are indexed by symbol + 1.
hbMakeCodeLengths(freq, alphaSize, maxLen) ==
    BzCodeLengths(Strict([i \in 1..alphaSize |-> (IF freq[i] = 0 THEN 1 ELSE freq[i]) * 256]),
                  alphaSize, maxLen)

\* BZ2_hbAssignCodes: canonical codes, shorter lengths first, by symbol.
RECURSIVE BzFirstCode(_, _)
BzFirstCode(len, n) ==
    IF \A i \in DOMAIN len : len[i] >= n THEN 0
    ELSE 2 * (BzFirstCode(len, n - 1) + Cardinality({i \in DOMAIN len : len[i] = n - 1}))

hbAssignCodes(len, s) ==
    BzFirstCode(len, len[s]) + Cardinality({i \in 1..(s - 1) : len[i] = len[s]})

BzGroupCount(nMTF) ==
    IF nMTF < 200 THEN 2 ELSE IF nMTF < 600 THEN 3 ELSE IF nMTF < 1200 THEN 4
    ELSE IF nMTF < 2400 THEN 5 ELSE 6

\* The number of symbols in group g (from 0) of the block data.
BzGroupLen(g, nMTF) ==
    IF BzGroupSize * (g + 1) < nMTF THEN BzGroupSize ELSE nMTF - BzGroupSize * g

\* ge of the initial split: symbols are taken from gs on until tFreq is
\* covered or the alphabet is at its end.
BzExtend(mtfFreq, gs, tFreq, alphaSize) ==
    CHOOSE ge \in (gs - 1)..Max(gs - 1, alphaSize - 1) :
        /\ SumOver(mtfFreq, gs + 1, ge + 1) >= tFreq \/ ge >= alphaSize - 1
        /\ \A g \in (gs - 1)..(ge - 1) :
              SumOver(mtfFreq, gs + 1, g + 1) < tFreq /\ g < alphaSize - 1

\* The initial coding tables: the alphabet split into nGroups ranges of
\* about equal frequency, length 0 inside the range and 15 outside.
RECURSIVE BzInitialTables(_, _, _, _, _, _, _)
BzSplit(mtfFreq, alphaSize, nGroups, nPart, remF, gs, len, ge) ==
    BzInitialTables(mtfFreq, alphaSize, nGroups, nPart - 1,
        remF - SumOver(mtfFreq, gs + 1, ge + 1), ge + 1,
        [len EXCEPT ![nPart] =
            Strict([v \in 1..alphaSize |-> IF v - 1 >= gs /\ v - 1 <= ge THEN 0 ELSE 15])])

BzStepBack(mtfFreq, alphaSize, nGroups, nPart, remF, gs, len, ge) ==
    IF ge > gs /\ nPart # nGroups /\ nPart # 1 /\ (nGroups - nPart) % 2 = 1
    THEN BzSplit(mtfFreq, alphaSize, nGroups, nPart, remF, gs, len, ge - 1)
    ELSE BzSplit(mtfFreq, alphaSize, nGroups, nPart, remF, gs, len, ge)

BzInitialTables(mtfFreq, alphaSize, nGroups, nPart, remF, gs, len) ==
    IF nPart = 0 THEN len
    ELSE BzStepBack(mtfFreq, alphaSize, nGroups, nPart, remF, gs, len,
                    BzExtend(mtfFreq, gs, remF \div nPart, alphaSize))

\* What table t costs on group g.
BzCost(mtfv, len, g, t) ==
    SumOver([k \in 1..BzGroupLen(g, Len(mtfv)) |-> len[t][mtfv[BzGroupSize * g + k] + 1]],
            1, BzGroupLen(g, Len(mtfv)))

\* The table each group of symbols is cheapest in (the first of equals).
BzCheapest(cost) ==
    CHOOSE t \in 1..Len(cost) :
        /\ \A u \in 1..Len(cost) : cost[t] <= cost[u]
        /\ \A u \in 1..(t - 1) : cost[t] < cost[u]

BzSelectors(mtfv, len) ==
    Strict([s \in 1..((Len(mtfv) + BzGroupSize - 1) \div BzGroupSize) |->
               BzCheapest(Strict([t \in 1..Len(len) |-> BzCost(mtfv, len, s - 1, t)]))])

\* What the groups that selected table t hold of every symbol.
BzGroupFreq(mtfv, alphaSize, selector, t) ==
    Strict([v \in 1..alphaSize |->
               Cardinality({i \in 1..Len(mtfv) :
                   /\ selector[((i - 1) \div BzGroupSize) + 1] = t
                   /\ mtfv[i] = v - 1})])

BzTablesFor(mtfv, alphaSize, selector, nGroups) ==
    Strict([t \in 1..nGroups |->
               hbMakeCodeLengths(BzGroupFreq(mtfv, alphaSize, selector, t),
                                 alphaSize, BzMaxCodeLen)])

\* One iteration: selectors from the tables, then tables from what each
\* selected table coded.
BzRefine(mtfv, alphaSize, len) ==
    BzTablesFor(mtfv, alphaSize, BzSelectors(mtfv, len), Len(len))

BzFrequencies(mtfv, alphaSize) ==
    Strict([v \in 1..alphaSize |-> Cardinality({i \in 1..Len(mtfv) : mtfv[i] = v - 1})])

\* The tables after n iterations.
RECURSIVE BzTables(_, _, _)
BzTables(mtfv, alphaSize, n) ==
    IF n = 0
    THEN BzInitialTables(BzFrequencies(mtfv, alphaSize), alphaSize,
                         BzGroupCount(Len(mtfv)), BzGroupCount(Len(mtfv)), Len(mtfv), 0,
                         [t \in 1..BzGroupCount(Len(mtfv)) |-> <<>>])
    ELSE BzRefine(mtfv, alphaSize, BzTables(mtfv, alphaSize, n - 1))

Ones(n) == [k \in 1..n |-> 1]

\* The selectors move-to-front coded, [pos, selectorMtf], and written in
\* unary.
RECURSIVE BzMtfSelectorLoop(_, _, _)
BzMtfSelectorLoop(selector, st, k) ==
    IF k = 0 \/ Len(st.selectorMtf) = Len(selector) THEN st
    ELSE IF k = 1
    THEN [pos |-> MoveToFront(st.pos, IndexOf(st.pos, selector[Len(st.selectorMtf) + 1])),
          selectorMtf |-> Append(st.selectorMtf,
                                 IndexOf(st.pos, selector[Len(st.selectorMtf) + 1]) - 1)]
    ELSE BzMtfSelectorLoop(selector, BzMtfSelectorLoop(selector, st, k \div 2),
                           k - (k \div 2))

BzUnaryBits(selectorMtf) ==
    Flatten([i \in 1..Len(selectorMtf) |-> Ones(selectorMtf[i]) \o <<0>>],
            1, Len(selectorMtf))

BzSelectorBits(selector, nGroups) ==
    BzUnaryBits(BzMtfSelectorLoop(selector,
                                  [pos |-> [t \in 1..nGroups |-> t], selectorMtf |-> <<>>],
                                  Len(selector)).selectorMtf)

\* One coding table: the first length, then per symbol the steps to its
\* length from the one before (10 up, 11 down) and a 0.
BzDelta(from, to) ==
    IF from < to THEN Flatten([k \in 1..(to - from) |-> <<1, 0>>], 1, to - from)
    ELSE Flatten([k \in 1..(from - to) |-> <<1, 1>>], 1, from - to)

BzTableBits(len) ==
    bsW(5, len[1])
    \o Flatten([i \in 1..Len(len) |->
                   BzDelta(IF i = 1 THEN len[1] ELSE len[i - 1], len[i]) \o <<0>>],
               1, Len(len))

\* The 16 + 16n bits naming the bytes in use.
BzIn(used, b) == IF \E k \in 1..Len(used) : used[k] = b THEN 1 ELSE 0

BzIn16(used, i) == IF \E k \in 1..Len(used) : used[k] \div 16 = i THEN 1 ELSE 0

BzMapBits(used) ==
    [i \in 1..16 |-> BzIn16(used, i - 1)]
    \o Flatten([i \in 1..16 |-> IF BzIn16(used, i - 1) = 1
                                THEN [j \in 1..16 |-> BzIn(used, 16 * (i - 1) + j - 1)]
                                ELSE <<>>], 1, 16)

\* The mapping table, the selectors, the coding tables and the symbols,
\* each in the code of its group's table.
BzSend(mtfv, used, selector, len) ==
    BzMapBits(used)
    \o bsW(3, Len(len)) \o bsW(15, Len(selector))
    \o BzSelectorBits(selector, Len(len))
    \o Flatten([t \in 1..Len(len) |-> BzTableBits(len[t])], 1, Len(len))
    \o Flatten([i \in 1..Len(mtfv) |->
                   bsW(len[selector[((i - 1) \div BzGroupSize) + 1]][mtfv[i] + 1],
                       hbAssignCodes(len[selector[((i - 1) \div BzGroupSize) + 1]],
                                     mtfv[i] + 1))],
               1, Len(mtfv))

BzSendLast(mtfv, used, len) ==
    BzSend(mtfv, used, BzSelectors(mtfv, len), BzRefine(mtfv, Len(used) + 2, len))

\* sendMTFValues: the tables start from the split of the alphabet, are
\* refined, and the selectors of the last round go with its tables.
sendMTFValues(mtfv, used) ==
    BzSendLast(mtfv, used, BzTables(mtfv, Len(used) + 2, BzIterations - 1))

BzStreamMagic == <<66, 90, 104>>
BzBlockMagic == <<49, 65, 89, 38, 83, 89>>
BzEndMagic == <<23, 114, 69, 56, 80, 144>>

\* One block: magic, CRC, the randomised bit (the compressor never sets
\* it), origPtr and the coded symbols.
BzBlockOf(crc, sorted, used) ==
    UnpackBits(BzBlockMagic) \o crc \o <<0>> \o bsW(24, sorted.origPtr)
    \o sendMTFValues(generateMTFValues(sorted.last, used), used)

BzBlockBits(crc, block) == BzBlockOf(crc, BzBlockSort(block), BzInUse(block))

BzStreamBits(data, crc) ==
    UnpackBits(BzStreamMagic \o <<48 + BzLevel>>)
    \o (IF data = <<>> THEN <<>> ELSE BzBlockBits(crc, BzRle1(data)))
    \o UnpackBits(BzEndMagic)
    \o (IF data = <<>> THEN AllZeros ELSE BzCombine(AllZeros, crc))

\* BzEncoder at level 9 read to its end, [huge, value]: the header, one
\* block unless the input is empty, the end mark and the combined CRC.  The
\* model does not build the stream of a block of BzMainSortFrom bytes or
\* more: huge = TRUE, value empty.
BzStream(data, huge) ==
    [huge |-> huge,
     value |-> IF huge THEN <<>> ELSE PackBits(BzStreamBits(data, BzCrc(data)))]

BzCompress(data) == BzStream(data, Len(BzRle1(data)) >= BzMainSortFrom)

(***************************************************************************)
(* The decoder (BZ2_bzDecompress).  Every stage of a block returns a       *)
(* record [ok, pos, ...] over the bits of the stream, pos being the number *)
(* of bits consumed; ok is FALSE for data the library rejects and for a    *)
(* stream that ends before its end mark.                                   *)
(***************************************************************************)
BzFail == [ok |-> FALSE, pos |-> 0]

\* The randomisation table of the library (BZ2_rNums).
BZ2_rNums == <<
    619, 720, 127, 481, 931, 816, 813, 233, 566, 247, 985, 724, 205, 454, 863, 491,
    741, 242, 949, 214, 733, 859, 335, 708, 621, 574, 73, 654, 730, 472, 419, 436,
    278, 496, 867, 210, 399, 680, 480, 51, 878, 465, 811, 169, 869, 675, 611, 697,
    867, 561, 862, 687, 507, 283, 482, 129, 807, 591, 733, 623, 150, 238, 59, 379,
    684, 877, 625, 169, 643, 105, 170, 607, 520, 932, 727, 476, 693, 425, 174, 647,
    73, 122, 335, 530, 442, 853, 695, 249, 445, 515, 909, 545, 703, 919, 874, 474,
    882, 500, 594, 612, 641, 801, 220, 162, 819, 984, 589, 513, 495, 799, 161, 604,
    958, 533, 221, 400, 386, 867, 600, 782, 382, 596, 414, 171, 516, 375, 682, 485,
    911, 276, 98, 553, 163, 354, 666, 933, 424, 341, 533, 870, 227, 730, 475, 186,
    263, 647, 537, 686, 600, 224, 469, 68, 770, 919, 190, 373, 294, 822, 808, 206,
    184, 943, 795, 384, 383, 461, 404, 758, 839, 887, 715, 67, 618, 276, 204, 918,
    873, 777, 604, 560, 951, 160, 578, 722, 79, 804, 96, 409, 713, 940, 652, 934,
    970, 447, 318, 353, 859, 672, 112, 785, 645, 863, 803, 350, 139, 93, 354, 99,
    820, 908, 609, 772, 154, 274, 580, 184, 79, 626, 630, 742, 653, 282, 762, 623,
    680, 81, 927, 626, 789, 125, 411, 521, 938, 300, 821, 78, 343, 175, 128, 250,
    170, 774, 972, 275, 999, 639, 495, 78, 352, 126, 857, 956, 358, 619, 580, 124,
    737, 594, 701, 612, 669, 112, 134, 694, 363, 992, 809, 743, 168, 974, 944, 375,
    748, 52, 600, 747, 642, 182, 862, 81, 344, 805, 988, 739, 511, 655, 814, 334,
    249, 515, 897, 955, 664, 981, 649, 113, 974, 459, 893, 228, 433, 837, 553, 268,
    926, 240, 102, 654, 459, 51, 686, 754, 806, 760, 493, 403, 415, 394, 687, 700,
    946, 670, 656, 610, 738, 392, 760, 799, 887, 653, 978, 321, 576, 617, 626, 502,
    894, 679, 243, 440, 680, 879, 194, 572, 640, 724, 926, 56, 204, 700, 707, 151,
    457, 449, 797, 195, 791, 558, 945, 679, 297, 59, 87, 824, 713, 663, 412, 693,
    342, 606, 134, 108, 571, 364, 631, 212, 174, 643, 304, 329, 343, 97, 430, 751,
    497, 314, 983, 374, 822, 928, 140, 206, 73, 263, 980, 736, 876, 478, 430, 305,
    170, 514, 364, 692, 829, 82, 855, 953, 676, 246, 369, 970, 294, 750, 807, 827,
    150, 790, 288, 923, 804, 378, 215, 828, 592, 281, 565, 555, 710, 82, 896, 831,
    547, 261, 524, 462, 293, 465, 502, 56, 661, 821, 976, 991, 658, 869, 905, 758,
    745, 193, 768, 550, 608, 933, 378, 286, 215, 979, 792, 961, 61, 688, 793, 644,
    986, 403, 106, 366, 905, 644, 372, 567, 466, 434, 645, 210, 389, 550, 919, 135,
    780, 773, 635, 389, 707, 100, 626, 958, 165, 504, 920, 176, 193, 713, 857, 265,
    203, 50, 668, 108, 645, 990, 626, 197, 510, 357, 358, 850, 858, 364, 936, 638 >>

\* The k-th byte that comes out of a randomised block is flipped in its
\* lowest bit when the countdown is at 1: the countdown starts afresh from
\* the next entry of the table each time it has run out.
RECURSIVE BzMasked(_, _)
BzMasked(k, entry) ==
    IF k < BZ2_rNums[entry] - 1 THEN FALSE
    ELSE IF k = BZ2_rNums[entry] - 1 THEN TRUE
    ELSE IF k = BZ2_rNums[entry] THEN FALSE
    ELSE BzMasked(k - BZ2_rNums[entry], (entry % 512) + 1)

\* The bytes in use: 16 bits naming the groups of 16 in use, then 16 bits
\* for each such group.
BzGroupsInUse(bits, pos) == {i \in 0..15 : bits[pos + i + 1] = 1}

BzBytesInUse(bits, pos, groups) ==
    {16 * i + j : i \in groups, j \in 0..15} \cap
    {b \in 0..255 : /\ b \div 16 \in groups
                    /\ bits[pos + 16 + 16 * Cardinality({g \in groups : g < b \div 16})
                            + (b % 16) + 1] = 1}

BzMapOf(bits, pos, groups) ==
    IF Len(bits) < pos + 16 + 16 * Cardinality(groups) THEN BzFail
    ELSE [ok |-> BzBytesInUse(bits, pos, groups) # {},
          pos |-> pos + 16 + 16 * Cardinality(groups),
          used |-> BzSetInOrder(BzBytesInUse(bits, pos, groups))]

BzReadMap(bits, pos) ==
    IF Len(bits) < pos + 16 THEN BzFail ELSE BzMapOf(bits, pos, BzGroupsInUse(bits, pos))

\* One selector: ones up to a zero, fewer than nGroups of them.
BzUnary(bits, pos, nGroups) ==
    {j \in 0..(nGroups - 1) :
        /\ pos + j + 1 <= Len(bits)
        /\ bits[pos + j + 1] = 0
        /\ \A m \in 1..j : bits[pos + m] = 1}

\* The selectors as they are coded: each turn of the loop takes one more,
\* [ok, done, pos, selectorMtf].  k turns are left; a selector is at least
\* one bit, so the bits that remain bound the turns.
BzSelectorStep(nSelectors, st, found) ==
    IF Len(st.selectorMtf) = nSelectors THEN [st EXCEPT !.done = TRUE]
    ELSE IF found = {} THEN [st EXCEPT !.done = TRUE, !.ok = FALSE]
    ELSE [st EXCEPT !.pos = @ + 1 + (CHOOSE j \in found : TRUE),
                    !.selectorMtf = Append(@, CHOOSE j \in found : TRUE)]

RECURSIVE BzSelectorLoop(_, _, _, _, _)
BzSelectorLoop(bits, nGroups, nSelectors, st, k) ==
    IF st.done \/ k = 0 THEN st
    ELSE IF k = 1
    THEN BzSelectorStep(nSelectors, st, BzUnary(bits, st.pos, nGroups))
    ELSE BzSelectorLoop(bits, nGroups, nSelectors,
                        BzSelectorLoop(bits, nGroups, nSelectors, st, k \div 2),
                        k - (k \div 2))

BzReadSelectors(bits, pos, nGroups, nSelectors) ==
    BzSelectorLoop(bits, nGroups, nSelectors,
                   [ok |-> TRUE, done |-> FALSE, pos |-> pos, selectorMtf |-> <<>>],
                   Len(bits) - pos + 1)

\* The move-to-front coding of the selectors undone: [pos, selector].
RECURSIVE BzUnMtfSelectorLoop(_, _, _)
BzUnMtfSelectorLoop(selectorMtf, st, k) ==
    IF k = 0 \/ Len(st.selector) = Len(selectorMtf) THEN st
    ELSE IF k = 1
    THEN [pos |-> MoveToFront(st.pos, selectorMtf[Len(st.selector) + 1] + 1),
          selector |-> Append(st.selector,
                              st.pos[selectorMtf[Len(st.selector) + 1] + 1])]
    ELSE BzUnMtfSelectorLoop(selectorMtf,
                             BzUnMtfSelectorLoop(selectorMtf, st, k \div 2),
                             k - (k \div 2))

BzUnMtfSelectors(selectorMtf, nGroups) ==
    BzUnMtfSelectorLoop(selectorMtf,
                        [pos |-> [t \in 1..nGroups |-> t], selector |-> <<>>],
                        Len(selectorMtf)).selector

\* One coding table: the lengths of alphaSize symbols from the length
\* curr, [ok, done, pos, curr, len].  Each turn reads a bit or two.
BzLengthStep(bits, alphaSize, st) ==
    IF Len(st.len) = alphaSize THEN [st EXCEPT !.done = TRUE]
    ELSE IF st.curr < 1 \/ st.curr > BzMaxDecodeLen \/ Len(bits) < st.pos + 1
    THEN [st EXCEPT !.done = TRUE, !.ok = FALSE]
    ELSE IF bits[st.pos + 1] = 0
    THEN [st EXCEPT !.pos = @ + 1, !.len = Append(@, st.curr)]
    ELSE IF Len(bits) < st.pos + 2 THEN [st EXCEPT !.done = TRUE, !.ok = FALSE]
    ELSE [st EXCEPT !.pos = @ + 2,
                    !.curr = IF bits[st.pos + 2] = 0 THEN @ + 1 ELSE @ - 1]

RECURSIVE BzLengthLoop(_, _, _, _)
BzLengthLoop(bits, alphaSize, st, k) ==
    IF st.done \/ k = 0 THEN st
    ELSE IF k = 1 THEN BzLengthStep(bits, alphaSize, st)
    ELSE BzLengthLoop(bits, alphaSize, BzLengthLoop(bits, alphaSize, st, k \div 2),
                      k - (k \div 2))

BzReadLengths(bits, pos, curr, alphaSize) ==
    BzLengthLoop(bits, alphaSize,
                 [ok |-> TRUE, done |-> FALSE, pos |-> pos, curr |-> curr, len |-> <<>>],
                 Len(bits) - pos + 1)

RECURSIVE BzReadTables(_, _, _, _)
BzPushTable(table, rest) ==
    [ok |-> table.ok /\ rest.ok, pos |-> rest.pos, tables |-> <<table.len>> \o rest.tables]

BzTableThen(bits, alphaSize, left, table) ==
    IF ~table.ok THEN [ok |-> FALSE, pos |-> table.pos, tables |-> <<>>]
    ELSE BzPushTable(table, BzReadTables(bits, table.pos, alphaSize, left - 1))

BzReadTables(bits, pos, alphaSize, left) ==
    IF left = 0 THEN [ok |-> TRUE, pos |-> pos, tables |-> <<>>]
    ELSE IF Len(bits) < pos + 5 THEN [ok |-> FALSE, pos |-> pos, tables |-> <<>>]
    ELSE BzTableThen(bits, alphaSize, left,
                     BzReadLengths(bits, pos + 5, Field(bits, pos, 5), alphaSize))

\* BZ2_hbCreateDecodeTables, by code length n: limit is the last code of
\* that length, base what is taken off a code to index perm, and perm the
\* symbols by length, then by number.
MinOf(len) == CHOOSE n \in 1..BzMaxDecodeLen :
                 (\E i \in DOMAIN len : len[i] = n) /\ \A i \in DOMAIN len : len[i] >= n

MaxOf(len) == CHOOSE n \in 1..BzMaxDecodeLen :
                 (\E i \in DOMAIN len : len[i] = n) /\ \A i \in DOMAIN len : len[i] <= n

BzLimit(len, n) ==
    IF n > MaxOf(len) THEN 0
    ELSE BzFirstCode(len, n) + Cardinality({i \in DOMAIN len : len[i] = n}) - 1

BzBase(len, n) ==
    IF n > MaxOf(len) \/ n = MinOf(len) THEN Cardinality({i \in DOMAIN len : len[i] < n})
    ELSE BzFirstCode(len, n) - Cardinality({i \in DOMAIN len : len[i] < n})

BzPerm(len, k) ==
    CHOOSE s \in DOMAIN len :
        Cardinality({i \in DOMAIN len : len[i] < len[s] \/ (len[i] = len[s] /\ i < s)}) = k

\* GET_MTF_VAL: the shortest code from gMinlen bits on that is within the
\* limit of its length.
BzCodeLens(bits, pos, len) ==
    {zn \in MinOf(len)..BzMaxDecodeLen :
        pos + zn <= Len(bits) /\ Field(bits, pos, zn) <= BzLimit(len, zn)}

BzSymbolAt(bits, pos, len, zn) ==
    IF Field(bits, pos, zn) - BzBase(len, zn) < 0
       \/ Field(bits, pos, zn) - BzBase(len, zn) >= Len(len)
    THEN [ok |-> FALSE, pos |-> pos, sym |-> 0]
    ELSE [ok |-> TRUE, pos |-> pos + zn,
          sym |-> BzPerm(len, Field(bits, pos, zn) - BzBase(len, zn)) - 1]

BzShortest(bits, pos, len, found) ==
    IF found = {} THEN [ok |-> FALSE, pos |-> pos, sym |-> 0]
    ELSE BzSymbolAt(bits, pos, len, CHOOSE zn \in found : \A other \in found : zn <= other)

BzReadSymbol(bits, pos, len) == BzShortest(bits, pos, len, BzCodeLens(bits, pos, len))

\* The symbols of the block up to the end-of-block symbol,
\* [ok, done, pos, mtfv]: each turn reads one symbol with the table of its
\* group of 50.
BzSymbolThen(st, eob, got) ==
    IF ~got.ok THEN [st EXCEPT !.done = TRUE, !.ok = FALSE]
    ELSE IF got.sym = eob THEN [st EXCEPT !.done = TRUE, !.pos = got.pos]
    ELSE [st EXCEPT !.pos = got.pos, !.mtfv = Append(@, got.sym)]

BzSymbolStep(bits, tables, selector, eob, st) ==
    IF Len(st.mtfv) \div BzGroupSize >= Len(selector)
    THEN [st EXCEPT !.done = TRUE, !.ok = FALSE]
    ELSE BzSymbolThen(st, eob,
             BzReadSymbol(bits, st.pos,
                          tables[selector[(Len(st.mtfv) \div BzGroupSize) + 1]]))

RECURSIVE BzSymbolLoop(_, _, _, _, _, _)
BzSymbolLoop(bits, tables, selector, eob, st, k) ==
    IF st.done \/ k = 0 THEN st
    ELSE IF k = 1 THEN BzSymbolStep(bits, tables, selector, eob, st)
    ELSE BzSymbolLoop(bits, tables, selector, eob,
                      BzSymbolLoop(bits, tables, selector, eob, st, k \div 2),
                      k - (k \div 2))

BzReadSymbols(bits, pos, tables, selector, eob) ==
    BzSymbolLoop(bits, tables, selector, eob,
                 [ok |-> TRUE, done |-> FALSE, pos |-> pos, mtfv |-> <<>>],
                 Len(bits) - pos + 1)

\* The run symbols from position i: how many there are and the run length
\* they spell (RUNA counts 1, RUNB 2, each times the weight of its place).
BzRunCount(mtfv, i) ==
    CHOOSE count \in 0..(Len(mtfv) - i + 1) :
        /\ i + count > Len(mtfv) \/ mtfv[i + count] > 1
        /\ \A d \in 0..(count - 1) : mtfv[i + d] <= 1

RECURSIVE BzRunValue(_, _, _)
BzRunValue(mtfv, i, count) ==
    IF count = 0 THEN 0 ELSE (mtfv[i] + 1) + 2 * BzRunValue(mtfv, i + 1, count - 1)

\* The block before the sort is undone, [ok, done, i, yy, tt]: each turn
\* expands a run or replaces a position by its byte.  A run of more than
\* 21 run symbols, or a block beyond the size of the level, is an error.
BzRunThen(mtfv, nblockMAX, st, count) ==
    IF count > 21 \/ Len(st.tt) + BzRunValue(mtfv, st.i, count) > nblockMAX
    THEN [st EXCEPT !.done = TRUE, !.ok = FALSE]
    ELSE [st EXCEPT !.i = @ + count,
                    !.tt = @ \o [k \in 1..BzRunValue(mtfv, st.i, count) |-> st.yy[1]]]

BzUnMtfStep(mtfv, nblockMAX, st) ==
    IF st.i > Len(mtfv) THEN [st EXCEPT !.done = TRUE]
    ELSE IF mtfv[st.i] <= 1 THEN BzRunThen(mtfv, nblockMAX, st, BzRunCount(mtfv, st.i))
    ELSE IF Len(st.tt) >= nblockMAX THEN [st EXCEPT !.done = TRUE, !.ok = FALSE]
    ELSE [st EXCEPT !.i = @ + 1,
                    !.yy = MoveToFront(@, mtfv[st.i]),
                    !.tt = Append(@, st.yy[mtfv[st.i]])]

RECURSIVE BzUnMtfLoop(_, _, _, _)
BzUnMtfLoop(mtfv, nblockMAX, st, k) ==
    IF st.done \/ k = 0 THEN st
    ELSE IF k = 1 THEN BzUnMtfStep(mtfv, nblockMAX, st)
    ELSE BzUnMtfLoop(mtfv, nblockMAX, BzUnMtfLoop(mtfv, nblockMAX, st, k \div 2),
                     k - (k \div 2))

BzUnMtf(mtfv, yy, nblockMAX) ==
    BzUnMtfLoop(mtfv, nblockMAX,
                [ok |-> TRUE, done |-> FALSE, i |-> 1, yy |-> yy, tt |-> <<>>],
                Len(mtfv) + 1)

\* The sort undone: where the i-th byte of the last column stands in the
\* first column, the chain followed from origPtr for nblock bytes,
\* [tPos, out].
BzPointers(tt) ==
    Strict([r \in 1..Len(tt) |->
               CHOOSE i \in 1..Len(tt) :
                   Cardinality({j \in 1..Len(tt) : tt[j] < tt[i] \/ (tt[j] = tt[i] /\ j < i)})
                   = r - 1])

BzFollowStep(tt, pointers, randomised, st) ==
    [tPos |-> pointers[st.tPos],
     out |-> Append(st.out,
                    IF randomised /\ BzMasked(Len(st.out) + 1, 1)
                    THEN (IF tt[st.tPos] % 2 = 0 THEN tt[st.tPos] + 1 ELSE tt[st.tPos] - 1)
                    ELSE tt[st.tPos])]

RECURSIVE BzFollowLoop(_, _, _, _, _)
BzFollowLoop(tt, pointers, randomised, st, k) ==
    IF k = 0 \/ Len(st.out) = Len(tt) THEN st
    ELSE IF k = 1 THEN BzFollowStep(tt, pointers, randomised, st)
    ELSE BzFollowLoop(tt, pointers, randomised,
                      BzFollowLoop(tt, pointers, randomised, st, k \div 2),
                      k - (k \div 2))

BzFollow(tt, pointers, origPtr, randomised) ==
    BzFollowLoop(tt, pointers, randomised,
                 [tPos |-> pointers[origPtr + 1], out |-> <<>>], Len(tt)).out

\* The first run-length pass undone, [ok, i, run, data]: after four equal
\* bytes comes a count.  A block that ends on four equal bytes has lost
\* its count.
BzUnRle1Step(block, st) ==
    IF st.run = 4
    THEN [ok |-> TRUE, i |-> st.i + 1, run |-> 0,
          data |-> st.data \o [k \in 1..block[st.i] |-> block[st.i - 1]]]
    ELSE [ok |-> st.i < Len(block) \/ st.run < 3 \/ block[st.i] # block[st.i - 1],
          i |-> st.i + 1,
          run |-> IF st.run > 0 /\ block[st.i] = block[st.i - 1] THEN st.run + 1 ELSE 1,
          data |-> Append(st.data, block[st.i])]

RECURSIVE BzUnRle1Loop(_, _, _)
BzUnRle1Loop(block, st, k) ==
    IF k = 0 \/ st.i > Len(block) THEN st
    ELSE IF k = 1 THEN BzUnRle1Step(block, st)
    ELSE BzUnRle1Loop(block, BzUnRle1Loop(block, st, k \div 2), k - (k \div 2))

BzUnRle1(block) ==
    BzUnRle1Loop(block, [ok |-> TRUE, i |-> 1, run |-> 0, data |-> <<>>], Len(block))

\* A block from its stored CRC on: [ok, pos, crc, data].
BzBlockChecked(storedCRC, pos, plain) ==
    [ok |-> plain.ok /\ BzCrc(plain.data) = storedCRC, pos |-> pos,
     crc |-> storedCRC, data |-> plain.data]

BzBlockUnsorted(storedCRC, randomised, origPtr, pos, undone) ==
    IF ~undone.ok \/ origPtr >= Len(undone.tt)
    THEN [ok |-> FALSE, pos |-> pos, crc |-> storedCRC, data |-> <<>>]
    ELSE BzBlockChecked(storedCRC, pos,
             BzUnRle1(BzFollow(undone.tt, BzPointers(undone.tt), origPtr, randomised)))

BzBlockSymbols(storedCRC, randomised, origPtr, used, nblockMAX, coded) ==
    IF ~coded.ok THEN [ok |-> FALSE, pos |-> coded.pos, crc |-> storedCRC, data |-> <<>>]
    ELSE BzBlockUnsorted(storedCRC, randomised, origPtr, coded.pos,
                         BzUnMtf(coded.mtfv, used, nblockMAX))

BzBlockTables(bits, storedCRC, randomised, origPtr, used, nblockMAX, selector, coding) ==
    IF ~coding.ok THEN [ok |-> FALSE, pos |-> coding.pos, crc |-> storedCRC, data |-> <<>>]
    ELSE BzBlockSymbols(storedCRC, randomised, origPtr, used, nblockMAX,
             BzReadSymbols(bits, coding.pos, coding.tables, selector, Len(used) + 1))

BzBlockSelectors(bits, storedCRC, randomised, origPtr, used, nblockMAX, nGroups, chosen) ==
    IF ~chosen.ok THEN [ok |-> FALSE, pos |-> chosen.pos, crc |-> storedCRC, data |-> <<>>]
    ELSE BzBlockTables(bits, storedCRC, randomised, origPtr, used, nblockMAX,
             BzUnMtfSelectors(SubSeq(chosen.selectorMtf, 1,
                                     IF Len(chosen.selectorMtf) < BzMaxSelectors
                                     THEN Len(chosen.selectorMtf) ELSE BzMaxSelectors),
                              nGroups),
             BzReadTables(bits, chosen.pos, Len(used) + 2, nGroups))

BzBlockGroups(bits, storedCRC, randomised, origPtr, used, nblockMAX, pos) ==
    IF Len(bits) < pos + 18
       \/ Field(bits, pos, 3) < 2 \/ Field(bits, pos, 3) > 6
       \/ Field(bits, pos + 3, 15) < 1
    THEN [ok |-> FALSE, pos |-> pos, crc |-> storedCRC, data |-> <<>>]
    ELSE BzBlockSelectors(bits, storedCRC, randomised, origPtr, used, nblockMAX,
             Field(bits, pos, 3),
             BzReadSelectors(bits, pos + 18, Field(bits, pos, 3), Field(bits, pos + 3, 15)))

BzBlockMap(bits, storedCRC, randomised, origPtr, nblockMAX, map) ==
    IF ~map.ok THEN [ok |-> FALSE, pos |-> map.pos, crc |-> storedCRC, data |-> <<>>]
    ELSE BzBlockGroups(bits, storedCRC, randomised, origPtr, map.used, nblockMAX, map.pos)

\* A block behind its magic: the CRC, the randomised bit, origPtr, the
\* bytes in use, the selectors, the tables and the symbols.
BzReadBlock(bits, pos, level) ==
    IF Len(bits) < pos + 57 \/ Field(bits, pos + 33, 24) > 10 + 100000 * level
    THEN [ok |-> FALSE, pos |-> pos, crc |-> <<>>, data |-> <<>>]
    ELSE BzBlockMap(bits, SubSeq(bits, pos + 1, pos + 32), bits[pos + 33] = 1,
                    Field(bits, pos + 33, 24), 100000 * level, BzReadMap(bits, pos + 57))

\* The blocks of a stream up to the end mark and the combined CRC.
RECURSIVE BzReadBlocks(_, _, _, _)
BzPushBlock(block, rest) == [ok |-> rest.ok, data |-> block.data \o rest.data]

BzBlockThen(bits, level, combined, block) ==
    IF ~block.ok THEN [ok |-> FALSE, data |-> <<>>]
    ELSE BzPushBlock(block, BzReadBlocks(bits, block.pos, level, BzCombine(combined, block.crc)))

BzReadBlocks(bits, pos, level, combined) ==
    IF Len(bits) < pos + 48 THEN [ok |-> FALSE, data |-> <<>>]
    ELSE IF PackBits(SubSeq(bits, pos + 1, pos + 48)) = BzEndMagic
    THEN [ok |-> Len(bits) >= pos + 80 /\ SubSeq(bits, pos + 49, pos + 80) = combined,
          data |-> <<>>]
    ELSE IF PackBits(SubSeq(bits, pos + 1, pos + 48)) = BzBlockMagic
    THEN BzBlockThen(bits, level, combined, BzReadBlock(bits, pos + 48, level))
    ELSE [ok |-> FALSE, data |-> <<>>]

\* BzDecoder read to its end: one stream, what follows it is left alone.
\* [ok, data]; ok is FALSE where the read returns an error.
BzDecompress(stream) ==
    IF \/ Len(stream) < 4
       \/ SubSeq(stream, 1, 3) # BzStreamMagic
       \/ stream[4] < 49
       \/ stream[4] > 57
    THEN [ok |-> FALSE, data |-> <<>>]
    ELSE BzReadBlocks(Strict(UnpackBits(stream)), 32, stream[4] - 48, AllZeros)

(***************************************************************************)
(* archive.rs: the writers.  An entry of the list is [name, data]: the     *)
(* inner path and the content of the file it names under root_dir.  A      *)
(* writer returns [result, file] with result "true", "false" or "panic".   *)
(***************************************************************************)
\* The entry-count check that opens both writers.
TooManyEntries(count) == U16_MAX < count

\* usize subtraction followed by `as u32`: a panic when overflow checks are
\* on and the difference is negative, else the wrapped value (a negative
\* value here stands for itself + 2^32, see BytesBE).
SubAsU32(a, b, checked) ==
    [panic |-> checked /\ a < b, value |-> a - b]

\* First loop of create_sar_archive: name, offset placeholder, size.
RECURSIVE SarFirstPass(_, _, _, _)
SarFirstPass(fh, entries, k, locations) ==
    IF k > Len(entries) THEN [ok |-> TRUE, fh |-> fh, locations |-> locations]
    ELSE LET named == write_shiftjis(fh, entries[k].name)
             entry_size == Len(entries[k].data)
         IN  IF ~named.ok THEN [ok |-> FALSE, fh |-> fh, locations |-> locations]
             ELSE SarFirstPass(write_u32_be(write_u32_be(named.fh, 0), entry_size),
                               entries, k + 1, Append(locations, named.fh.position))

\* A second loop that appends the body first and back-patches afterwards,
\* without seeking back to the end of the file.
RECURSIVE SarSecondPassPatchLast(_, _, _, _, _, _)
SarSecondPassPatchLast(fh, entries, locations, k, end_of_header, checked) ==
    IF k > Len(entries) THEN [ok |-> TRUE, fh |-> fh]
    ELSE LET entry_offset == fh.position
             delta == SubAsU32(entry_offset, end_of_header, checked)
             body == write_file(fh, entries[k].data)
             patched == write_u32_be(seek(body, locations[k]), delta.value)
         IN  IF delta.panic THEN [ok |-> FALSE, fh |-> body]
             ELSE SarSecondPassPatchLast(patched, entries, locations, k + 1,
                                         end_of_header, checked)

\* Second loop of create_sar_archive: back-patch the offset, append the body.
RECURSIVE SarSecondPass(_, _, _, _, _, _)
SarSecondPass(fh, entries, locations, k, end_of_header, checked) ==
    IF k > Len(entries) THEN [ok |-> TRUE, fh |-> fh]
    ELSE LET entry_offset == fh.position
             delta == SubAsU32(entry_offset, end_of_header, checked)
             patched == write_u32_be(seek(fh, locations[k]), delta.value)
             body == write_file(seek(patched, entry_offset), entries[k].data)
         IN  IF delta.panic THEN [ok |-> FALSE, fh |-> seek(fh, locations[k])]
             ELSE SarSecondPass(body, entries, locations, k + 1, end_of_header, checked)

\* What a writer returns behind its second loop.
WriterResult(second) ==
    [result |-> IF second.ok THEN "true" ELSE "panic", file |-> second.fh.file]

\* create_sar_archive behind its first loop: end_of_header is written into
\* the header, then the second loop runs from the end of the header.
SarBodies(entries, checked, first) ==
    LET end_of_header == first.fh.position
        patched == seek(write_u32_be(seek(first.fh, 2), end_of_header), end_of_header)
    IN  IF ~first.ok THEN [result |-> "panic", file |-> first.fh.file]
        ELSE WriterResult(SarSecondPass(patched, entries, first.locations, 1,
                                        end_of_header, checked))

create_sar_archive(entries, key_table, checked) ==
    LET fh0 == NewFileHelper(<<>>, key_table)
    IN  IF TooManyEntries(Len(entries)) THEN [result |-> "false", file |-> fh0.file]
        ELSE SarBodies(entries, checked,
                       SarFirstPass(write_u32_be(write_u16_be(fh0, Len(entries)), 0),
                                    entries, 1, <<>>))

\* The first four bytes a read into [0; 4] leaves for a file.
HeaderBytes(data) == [k \in 1..4 |-> IF k <= Len(data) THEN data[k] ELSE 0]

file_encoding_to_use(file_path, data, bzip2, spb) ==
    LET lowercase_name == ToLowercase(file_path)
        header_bytes == HeaderBytes(data)
    IN  IF ~bzip2 /\ ~spb THEN "None"
        ELSE IF ~EndsWith(lowercase_name, ExtWav) /\ ~EndsWith(lowercase_name, ExtBmp)
        THEN "None"
        ELSE IF header_bytes = <<82, 73, 70, 70>>
        THEN (IF bzip2 THEN "Bzip2" ELSE "None")
        ELSE IF header_bytes[1] = 66 /\ header_bytes[2] = 77
        THEN (IF spb THEN "Spb" ELSE IF bzip2 THEN "Bzip2" ELSE "None")
        ELSE "None"

compression_to_byte(compression) ==
    IF compression = "None" THEN 0
    ELSE IF compression = "Spb" THEN 1
    ELSE IF compression = "Lzss" THEN 2
    ELSE 4

\* First loop of create_nsa_archive: name, tag, three placeholders.
RECURSIVE NsaFirstPass(_, _, _, _, _, _)
NsaFirstPass(fh, entries, k, locations, bzip2, spb) ==
    IF k > Len(entries) THEN [ok |-> TRUE, fh |-> fh, locations |-> locations]
    ELSE LET named == write_shiftjis(fh, entries[k].name)
             encoding == file_encoding_to_use(entries[k].name, entries[k].data, bzip2, spb)
             tagged == write_u8(named.fh, compression_to_byte(encoding))
             reserved == write_u32_be(write_u32_be(write_u32_be(tagged, 0), 0), 0)
         IN  IF ~named.ok THEN [ok |-> FALSE, fh |-> fh, locations |-> locations]
             ELSE NsaFirstPass(reserved, entries, k + 1,
                               Append(locations, <<tagged.position, encoding>>), bzip2, spb)

\* The body the second loop appends for an entry, [huge, value]: huge is
\* BzCompress's.
NsaBody(compression, data) ==
    IF compression = "None" THEN [huge |-> FALSE, value |-> data]
    ELSE IF compression = "Bzip2" THEN BzCompress(data)
    ELSE [huge |-> FALSE, value |-> <<>>]

\* Second loop of create_nsa_archive; bodies lists, per entry, where the
\* body went: [offset, length].  The value recorded as compressed_size is
\* always decompressed_size.  The loop of the model stops at a body it does
\* not build (huge).
RECURSIVE NsaSecondPass(_, _, _, _, _, _, _)
NsaSecondPass(fh, entries, locations, k, end_of_header, checked, bodies) ==
    IF k > Len(entries) THEN [ok |-> TRUE, huge |-> FALSE, fh |-> fh, bodies |-> bodies]
    ELSE LET entry_offset == fh.position
             decompressed_size == Len(entries[k].data)
             body == NsaBody(locations[k][2], entries[k].data)
             written == write_file(seek(fh, entry_offset), body.value)
             compressed_size == decompressed_size
             delta == SubAsU32(entry_offset, end_of_header, checked)
             patched == write_u32_be(write_u32_be(write_u32_be(
                            seek(written, locations[k][1]), delta.value),
                            compressed_size), decompressed_size)
             noted == Append(bodies, [offset |-> entry_offset,
                                      length |-> Len(body.value)])
         IN  IF body.huge
             THEN [ok |-> FALSE, huge |-> TRUE, fh |-> fh, bodies |-> bodies]
             ELSE IF delta.panic
             THEN [ok |-> FALSE, huge |-> FALSE, fh |-> seek(written, locations[k][1]),
                   bodies |-> noted]
             ELSE NsaSecondPass(patched, entries, locations, k + 1, end_of_header,
                                checked, noted)

\* What create_nsa_archive has done behind its second loop; "huge" when
\* the model did not follow it to the end.
NsaWritten(end_of_header, locations, second) ==
    [result |-> IF second.huge THEN "huge" ELSE IF second.ok THEN "true" ELSE "panic",
     file |-> second.fh.file,
     end_of_header |-> end_of_header, locations |-> locations,
     bodies |-> second.bodies]

\* create_nsa_archive behind its first loop: end_of_header (the header's
\* length plus the offset argument) is written into the header, then the
\* second loop runs from there.
NsaBodies(entries, offset, checked, first) ==
    LET end_of_header == first.fh.position + offset
        patched == seek(write_u32_be(seek(first.fh, 2), end_of_header), end_of_header)
    IN  IF ~first.ok
        THEN [result |-> "panic", file |-> first.fh.file, end_of_header |-> 0,
              locations |-> <<>>, bodies |-> <<>>]
        ELSE NsaWritten(end_of_header, first.locations,
                        NsaSecondPass(patched, entries, first.locations, 1,
                                      end_of_header, checked, <<>>))

\* create_nsa_archive as [result, file, end_of_header, locations, bodies].
NsaWrite(entries, offset, key_table, bzip2, spb, checked) ==
    LET fh0 == NewFileHelper(<<>>, key_table)
    IN  IF TooManyEntries(Len(entries))
        THEN [result |-> "false", file |-> fh0.file, end_of_header |-> 0,
              locations |-> <<>>, bodies |-> <<>>]
        ELSE NsaBodies(entries, offset, checked,
                       NsaFirstPass(write_u32_be(write_u16_be(fh0, Len(entries)), 0),
                                    entries, 1, <<>>, bzip2, spb))

\* The bool the caller sees ("huge": a run the model does not follow, see
\* BzCompress), and the file left on disk.
ResultAndFile(w) == [result |-> w.result, file |-> w.file]

create_nsa_archive(entries, offset, key_table, bzip2, spb, checked) ==
    ResultAndFile(NsaWrite(entries, offset, key_table, bzip2, spb, checked))

(***************************************************************************)
(* archive.rs: the header parsers and open_file.  An entry is [name,       *)
(* offset, size, decompressed_size, compression]; decompressed_size is     *)
(* <<>> for None and <<n>> for Some(n).  The index is [entries,            *)
(* entries_map, offset], entries_map a function from names to 0-based      *)
(* positions.                                                              *)
(***************************************************************************)
\* read_u32 + offset in u32, on the 16-bit halves of both: a panic when
\* overflow checks are on and the sum passes 2^32, else the wrapped sum.
AddU32(field, offset, checked) ==
    LET lo == field.lo + (offset % 65536)
        hi == field.hi + (offset \div 65536) + (lo \div 65536)
    IN  [panic |-> checked /\ hi >= 65536,
         value |-> IF (hi % 65536) >= 32768 THEN Huge
                   ELSE (hi % 65536) * 65536 + (lo % 65536)]

\* HashMap filled by "for (i, entry) in entries.iter().enumerate()": a later
\* entry of the same name replaces the earlier one.
EntriesMap(entries) ==
    [name \in {entries[k].name : k \in 1..Len(entries)} |->
        CHOOSE i \in 0..(Len(entries) - 1) :
            /\ entries[i + 1].name = name
            /\ \A j \in 0..(Len(entries) - 1) : entries[j + 1].name = name => j <= i]

MakeIndex(entries, offset) ==
    [entries |-> entries, entries_map |-> EntriesMap(entries), offset |-> offset]

EmptyIndex == [entries |-> <<>>, entries_map |-> <<>>, offset |-> 0]

\* The loop of parse_sar_header, `left` entries to go.
RECURSIVE SarEntries(_, _, _, _)

\* The body of that loop behind read_shiftjis, which returned `name`.
SarEntry(fh, left, file_offset, entries, name) ==
    LET offset == read_u32_be(name.fh)
        size == read_u32_be(offset.fh)
    IN  IF ~name.ok \/ ~offset.ok \/ ~size.ok
        THEN [ok |-> FALSE, fh |-> fh, entries |-> entries]
        ELSE SarEntries(size.fh, left - 1, file_offset,
                        Append(entries, [name |-> name.value,
                                         offset |-> SatAdd(offset.value, file_offset),
                                         size |-> size.value,
                                         decompressed_size |-> <<size.value>>,
                                         compression |-> "None"]))

SarEntries(fh, left, file_offset, entries) ==
    IF left = 0 THEN [ok |-> TRUE, fh |-> fh, entries |-> entries]
    ELSE SarEntry(fh, left, file_offset, entries, read_shiftjis(fh))

\* The ArchiveIndex a header parser builds from the entries its loop read.
ParsedIndex(parsed, offset) ==
    IF ~parsed.ok THEN [ok |-> FALSE, fh |-> parsed.fh, index |-> EmptyIndex]
    ELSE [ok |-> TRUE, fh |-> parsed.fh, index |-> MakeIndex(parsed.entries, offset)]

\* A parse_sar_header that leaves the base offset out of file_offset.
ParseSarHeaderNoBase(fh, offset, checked) ==
    LET num_of_entries == read_u16_be(fh)
        delta == read_u32_be(num_of_entries.fh)
    IN  IF ~num_of_entries.ok \/ ~delta.ok
        THEN [ok |-> FALSE, fh |-> fh, index |-> EmptyIndex]
        ELSE ParsedIndex(SarEntries(delta.fh, num_of_entries.value, delta.value, <<>>),
                         delta.value)

parse_sar_header(fh, offset, checked) ==
    LET num_of_entries == read_u16_be(fh)
        delta == read_u32_be(num_of_entries.fh)
        file_offset == AddU32(delta, offset, checked)
    IN  IF ~num_of_entries.ok \/ ~delta.ok \/ file_offset.panic
        THEN [ok |-> FALSE, fh |-> fh, index |-> EmptyIndex]
        ELSE ParsedIndex(SarEntries(delta.fh, num_of_entries.value, file_offset.value, <<>>),
                         file_offset.value)

\* The compression chosen by extension: ".nbz" -> Bzip2, ".spb" -> Spb.
CompressionByName(name) ==
    LET lowercase_name == ToLowercase(name)
    IN  IF EndsWith(lowercase_name, ExtNbz) THEN "Bzip2"
        ELSE IF EndsWith(lowercase_name, ExtSpb) THEN "Spb"
        ELSE "None"

\* A match on the tag byte that lets the extension decide whatever the tag.
NsaCompressionNameFirst(tag, name) ==
    IF CompressionByName(name) # "None" THEN CompressionByName(name)
    ELSE IF tag = 0 THEN "None"
    ELSE IF tag = 1 THEN "Spb"
    ELSE IF tag = 2 THEN "Lzss"
    ELSE IF tag = 4 THEN "Bzip2"
    ELSE "Unknown"

\* A match on the tag byte whose last arm stores the entry as it is.
NsaCompressionLenient(tag, name) ==
    IF tag = 0 THEN CompressionByName(name)
    ELSE IF tag = 1 THEN "Spb"
    ELSE IF tag = 2 THEN "Lzss"
    ELSE IF tag = 4 THEN "Bzip2"
    ELSE "None"

\* The match on the tag byte in parse_nsa_header; "Unknown" is the panic arm.
NsaCompression(tag, name) ==
    IF tag = 0 THEN CompressionByName(name)
    ELSE IF tag = 1 THEN "Spb"
    ELSE IF tag = 2 THEN "Lzss"
    ELSE IF tag = 4 THEN "Bzip2"
    ELSE "Unknown"

\* decompressed_size of an NSA entry: dropped for Bzip2 and Spb.
NsaDecompressedSize(compression, field) ==
    IF compression = "Bzip2" \/ compression = "Spb" THEN <<>> ELSE <<field>>

\* The loop of parse_nsa_header, `left` entries to go.
RECURSIVE NsaEntries(_, _, _, _)

\* The three u32 fields behind the tag, and the entry pushed.
NsaFields(fh, left, file_offset, entries, name, compression, offset) ==
    LET size == read_u32_be(offset.fh)
        decompressed == read_u32_be(size.fh)
    IN  IF ~offset.ok \/ ~size.ok \/ ~decompressed.ok
        THEN [ok |-> FALSE, fh |-> fh, entries |-> entries]
        ELSE NsaEntries(decompressed.fh, left - 1, file_offset,
                        Append(entries, [name |-> name.value,
                                         offset |-> SatAdd(offset.value, file_offset),
                                         size |-> size.value,
                                         decompressed_size |->
                                             NsaDecompressedSize(compression,
                                                                 decompressed.value),
                                         compression |-> compression]))

\* The body of that loop behind read_shiftjis and read_u8, which returned
\* `name` and `tag`.
NsaEntry(fh, left, file_offset, entries, name, tag) ==
    IF ~name.ok \/ ~tag.ok \/ NsaCompression(tag.value, name.value) = "Unknown"
    THEN [ok |-> FALSE, fh |-> fh, entries |-> entries]
    ELSE NsaFields(fh, left, file_offset, entries, name,
                   NsaCompression(tag.value, name.value), read_u32_be(tag.fh))

\* The tag byte behind the name.
NsaTag(fh, left, file_offset, entries, name) ==
    NsaEntry(fh, left, file_offset, entries, name, read_u8(name.fh))

NsaEntries(fh, left, file_offset, entries) ==
    IF left = 0 THEN [ok |-> TRUE, fh |-> fh, entries |-> entries]
    ELSE NsaTag(fh, left, file_offset, entries, read_shiftjis(fh))

parse_nsa_header(fh, offset, checked) ==
    LET num_of_entries == read_u16_be(fh)
        delta == read_u32_be(num_of_entries.fh)
        file_offset == AddU32(delta, offset, checked)
    IN  IF ~num_of_entries.ok \/ ~delta.ok \/ file_offset.panic
        THEN [ok |-> FALSE, fh |-> fh, index |-> EmptyIndex]
        ELSE ParsedIndex(NsaEntries(delta.fh, num_of_entries.value, file_offset.value, <<>>),
                         file_offset.value)

\* The while loop of parse_ns2_header; `limit` is offset_of_file_data - 1.
RECURSIVE Ns2Entries(_, _, _, _)

\* A loop body that leaves file_offset where it is.
Ns2EntryFlat(fh, limit, file_offset, entries, name, size) ==
    IF ~name.ok \/ ~size.ok THEN [ok |-> FALSE, fh |-> fh, entries |-> entries]
    ELSE Ns2Entries(size.fh, limit, file_offset,
                    Append(entries, [name |-> name.value,
                                     offset |-> file_offset,
                                     size |-> size.value,
                                     decompressed_size |-> <<>>,
                                     compression |-> CompressionByName(name.value)]))

\* The body of that loop behind read_quoted_shiftjis and read_u32_le, which
\* returned `name` and `size`.
Ns2Entry(fh, limit, file_offset, entries, name, size) ==
    IF ~name.ok \/ ~size.ok THEN [ok |-> FALSE, fh |-> fh, entries |-> entries]
    ELSE Ns2Entries(size.fh, limit, SatAdd(file_offset, size.value),
                    Append(entries, [name |-> name.value,
                                     offset |-> file_offset,
                                     size |-> size.value,
                                     decompressed_size |-> <<>>,
                                     compression |-> CompressionByName(name.value)]))

\* The size behind the name.
Ns2Size(fh, limit, file_offset, entries, name) ==
    Ns2Entry(fh, limit, file_offset, entries, name, read_u32_le(name.fh))

Ns2Entries(fh, limit, file_offset, entries) ==
    IF ~(fh.position < limit) THEN [ok |-> TRUE, fh |-> fh, entries |-> entries]
    ELSE Ns2Size(fh, limit, file_offset, entries, read_quoted_shiftjis(fh))

\* parse_ns2_header behind its loop: one byte of unknown meaning is read,
\* the index is built with offset 0.
Ns2Index(parsed, unknown_value) ==
    IF ~parsed.ok \/ ~unknown_value.ok
    THEN [ok |-> FALSE, fh |-> parsed.fh, index |-> EmptyIndex]
    ELSE [ok |-> TRUE, fh |-> unknown_value.fh, index |-> MakeIndex(parsed.entries, 0)]

\* The byte behind the entries.
Ns2Unknown(parsed) == Ns2Index(parsed, read_u8(parsed.fh))

\* offset_of_file_data - 1 in the loop condition is a usize subtraction: at 0
\* it panics when overflow checks are on and is usize::MAX otherwise.
parse_ns2_header(fh, offset, checked) ==
    LET delta == read_u32_le(fh)
        offset_of_file_data == AddU32(delta, offset, checked)
        limit == IF offset_of_file_data.value = 0 THEN Huge
                 ELSE offset_of_file_data.value - 1
    IN  IF ~delta.ok \/ offset_of_file_data.panic
           \/ (checked /\ offset_of_file_data.value = 0)
        THEN [ok |-> FALSE, fh |-> fh, index |-> EmptyIndex]
        ELSE Ns2Unknown(Ns2Entries(delta.fh, limit, offset_of_file_data.value, <<>>))

parse_header(fh, archive_type, offset, checked) ==
    IF archive_type = "SAR" THEN parse_sar_header(fh, offset, checked)
    ELSE IF archive_type = "NSA" THEN parse_nsa_header(fh, offset, checked)
    ELSE parse_ns2_header(fh, offset, checked)

\* open_file: [ok, fh, index]; ok = FALSE when the parse panics.
open_file(file, archive_type, offset, key_table, checked) ==
    parse_header(NewFileHelper(file, key_table), archive_type, offset, checked)

(***************************************************************************)
(* The lzss library: Lzss<8, 4, 0, 256, 512>::decompress_stack.  A flag    *)
(* bit 1 is followed by an 8-bit literal, a flag bit 0 by an 8-bit ring    *)
(* position and a 4-bit length (copying length + 2 bytes); the ring of 256 *)
(* zero bytes is written from position 239 on.  The input ending inside a  *)
(* token ends the output.                                                  *)
(***************************************************************************)
RECURSIVE LzssCopy(_, _, _, _, _)
LzssCopy(ring, r, from, left, out) ==
    IF left = 0 THEN [ring |-> ring, r |-> r, out |-> out]
    ELSE LET c == ring[(from % 256) + 1]
         IN  LzssCopy([ring EXCEPT ![r + 1] = c], (r + 1) % 256, from + 1, left - 1,
                      Append(out, c))

RECURSIVE LzssTokens(_, _, _, _, _)
LzssTokens(bits, pos, ring, r, out) ==
    LET flag == ReadInt(bits, pos, 1)
        literal == ReadInt(bits, flag.pos, 8)
        from == ReadInt(bits, flag.pos, 8)
        length == ReadInt(bits, from.pos, 4)
        copied == LzssCopy(ring, r, from.value, length.value + 2, out)
    IN  IF ~flag.ok THEN out
        ELSE IF flag.value = 1
        THEN (IF ~literal.ok THEN out
              ELSE LzssTokens(bits, literal.pos, [ring EXCEPT ![r + 1] = literal.value],
                              (r + 1) % 256, Append(out, literal.value)))
        ELSE (IF ~from.ok \/ ~length.ok THEN out
              ELSE LzssTokens(bits, length.pos, copied.ring, copied.r, copied.out))

LzssDecompress(input) ==
    LzssTokens(UnpackBits(input), 0, [k \in 1..256 |-> 0], 239, <<>>)

(***************************************************************************)
(* archive.rs: extract.  The result is [fh, status, data, picture]: status *)
(* "ok" with the bytes in data (for an Spb entry, the decoded picture in   *)
(* picture, which the BMP writer serialises), "panic", or "huge" for a     *)
(* buffer the model does not build.                                        *)
(***************************************************************************)
ExtractResult(fh, status, data, picture) ==
    [fh |-> fh, status |-> status, data |-> data, picture |-> picture]

\* The Spb arm behind decode_spb.
ExtractSpb(fh, picture) ==
    IF picture.panic THEN ExtractResult(fh, "panic", <<>>, NoPicture)
    ELSE ExtractResult(fh, "ok", <<>>, picture)

\* The Bzip2 arm: BzDecoder over input[4..], read to the end.
ExtractBzip2(fh, input, unzipped) ==
    IF Len(input) < 4 \/ ~unzipped.ok THEN ExtractResult(fh, "panic", <<>>, NoPicture)
    ELSE ExtractResult(fh, "ok", unzipped.data, NoPicture)

\* The match on info.compression, raw being read_slice's result and keyed
\* read_slice_through_keytable's.
ExtractArm(fh, info, checked, raw, keyed) ==
    IF raw.huge THEN ExtractResult(raw.fh, "huge", <<>>, NoPicture)
    ELSE IF info.compression = "None"
    THEN ExtractResult(keyed.fh, "ok", keyed.value, NoPicture)
    ELSE IF info.compression = "Spb"
    THEN ExtractSpb(raw.fh, decode_spb(raw.value, checked))
    ELSE IF info.compression = "Lzss"
    THEN ExtractResult(keyed.fh, "ok", LzssDecompress(keyed.value), NoPicture)
    ELSE IF info.compression = "Bzip2"
    THEN ExtractBzip2(raw.fh, raw.value,
                      BzDecompress(SubSeq(raw.value, 5, Len(raw.value))))
    ELSE ExtractResult(fh, "ok", <<>>, NoPicture)

extract(fh, info, checked) ==
    ExtractArm(fh, info, checked, read_slice(fh, info.offset, info.size),
               read_slice_through_keytable(fh, info.offset, info.size))

\* ArchiveEntry::info.
EntryInfo(entry) ==
    [offset |-> entry.offset, size |-> entry.size,
     decompressed_size |-> entry.decompressed_size, compression |-> entry.compression]

(***************************************************************************)
(* The parts of the state a specification does not use stay as follows.    *)
(***************************************************************************)
NoImage == [width |-> 0, height |-> 0, pixel_buffer |-> <<>>]

SpbIdle ==
    /\ image = NoImage
    /\ spb_data = <<>>
    /\ bmp = NoPicture
    /\ spb_pc = "idle"

NoKeyResult == [status |-> "none", table |-> <<>>]

KeyIdle ==
    /\ key_file = <<>>
    /\ key_result = NoKeyResult

NoEncIn == [path |-> <<>>, data |-> <<>>, bzip2 |-> FALSE, spb |-> FALSE]

EncIdle ==
    /\ enc_in = NoEncIn
    /\ enc_out = "none"

NoWargs == [kind |-> "none", offset |-> 0, bzip2 |-> FALSE, spb |-> FALSE, key |-> "identity"]
NoContainer == [type |-> "none", layout |-> "front", base |-> 0, key |-> "identity",
                entries |-> <<>>]
NoRargs == [type |-> "none", offset |-> 0, key |-> "identity"]
ClosedArchive == [status |-> "closed", cursor |-> 0, position |-> 0, index |-> EmptyIndex]

ArcIdle ==
    /\ src_files = <<>>
    /\ wargs = NoWargs
    /\ container = NoContainer
    /\ disk = <<>>
    /\ w_result = "none"
    /\ rargs = NoRargs
    /\ arc = ClosedArchive
    /\ outputs = <<>>

(***************************************************************************)
(* The SPB round trip as a state machine: an Image is drawn, encode_spb    *)
(* turns it into bytes, decode_spb turns the bytes into a picture.         *)
(***************************************************************************)
MaxPixels == 6

\* Channel 0 steps by 1 and 2, channel 1 by 63 and 64, channel 2 by 127..255.
PixelValues == {<<10, 20, 0>>, <<11, 84, 255>>, <<9, 21, 128>>}

Dimensions == {d \in (1..MaxPixels) \X (1..MaxPixels) : d[1] * d[2] <= MaxPixels}

Images ==
    UNION {{[width |-> d[1], height |-> d[2], pixel_buffer |-> pb] :
                pb \in [1..(d[1] * d[2]) -> PixelValues]} : d \in Dimensions}

SpbInit ==
    /\ build \in Builds
    /\ image \in Images
    /\ spb_data = <<>>
    /\ bmp = NoPicture
    /\ spb_pc = "input"
    /\ KeyIdle /\ EncIdle /\ ArcIdle

EncodeSpb ==
    /\ spb_pc = "input"
    /\ \E encoded \in {encode_spb(image, build = "debug")} :
           /\ spb_data' = encoded.bytes
           /\ spb_pc' = IF encoded.panic THEN "panicked" ELSE "encoded"
    /\ UNCHANGED <<build, image, bmp, key_vars, enc_vars, arc_vars>>

DecodeSpb ==
    /\ spb_pc = "encoded"
    /\ bmp' = decode_spb(spb_data, build = "debug")
    /\ spb_pc' = IF bmp'.panic THEN "panicked" ELSE "decoded"
    /\ UNCHANGED <<build, image, spb_data, key_vars, enc_vars, arc_vars>>

SpbNext == EncodeSpb \/ DecodeSpb

SpecSpb == SpbInit /\ [][SpbNext]_vars

\* The pixel of the input image at column x of row y, as [c0, c1, c2].
ImagePixel(img, x, y) == img.pixel_buffer[y * img.width + x + 1]

\* C1: decode_spb(encode_spb(img)) is a picture of img's width and height
\* whose pixel at (x, y) carries img's pixel at (x, y) channel by channel
\* (the image's channel 0 is blue, the picture's pixel is [r, g, b, 255]);
\* neither step panics.
SpbRoundTrip ==
    /\ spb_pc # "panicked"
    /\ spb_pc = "decoded" =>
        /\ bmp.width = image.width
        /\ bmp.height = image.height
        /\ \A x \in 0..(image.width - 1) : \A y \in 0..(image.height - 1) :
              bmp.pixels[<<x, y>>] = <<ImagePixel(image, x, y)[3], ImagePixel(image, x, y)[2],
                                       ImagePixel(image, x, y)[1], 255>>

\* A decoded image of two rows whose size is not a multiple of 4 and whose
\* pixels are not all equal.
SpbRoundTripWitness ==
    /\ spb_pc = "decoded"
    /\ image.height = 2
    /\ (image.width * image.height) % 4 # 0
    /\ image.width * image.height > 4
    /\ \E k \in 1..Len(image.pixel_buffer) : image.pixel_buffer[k] # image.pixel_buffer[1]

(***************************************************************************)
(* Loading a key table.  The key files are a permutation of 0..255 (the    *)
(* identity rotated by r), whole or cut short by one byte, behind a prefix *)
(* of p equal bytes.                                                       *)
(***************************************************************************)
MaxRotation == 5
MaxPrefix == 4

Rotation(r) == [k \in 1..TableSize |-> (k - 1 + r) % TableSize]

Padded(p, body) == [k \in 1..p |-> 7] \o body

KeyFiles ==
    {Padded(p, SubSeq(Rotation(r), 1, TableSize - cut)) :
        p \in 0..MaxPrefix, r \in 0..MaxRotation, cut \in {0, 1}}

KeyInit ==
    /\ build \in Builds
    /\ key_file \in KeyFiles
    /\ key_result = NoKeyResult
    /\ SpbIdle /\ EncIdle /\ ArcIdle

\* create_keytable(file), the file's bytes standing for the file.
CreateKeytable ==
    /\ key_result.status = "none"
    /\ \E loaded \in {create_keytable(key_file)} :
           key_result' = [status |-> IF loaded.panic THEN "panic" ELSE "ok",
                          table |-> IF loaded.panic THEN <<>> ELSE loaded.table]
    /\ UNCHANGED <<build, key_file, spb_vars, enc_vars, arc_vars>>

KeyNext == CreateKeytable

SpecKey == KeyInit /\ [][KeyNext]_vars

\* The 256 bytes of buffer from index i (0-based) on, if they are pairwise
\* distinct.
DistinctRunAt(buffer, i) ==
    /\ i + TableSize <= Len(buffer)
    /\ \A a \in 1..TableSize : \A b \in 1..TableSize :
          a < b => buffer[i + a] # buffer[i + b]

HasDistinctRun(buffer) == \E i \in 0..Len(buffer) : DistinctRunAt(buffer, i)

FirstDistinctRun(buffer) ==
    LET i == CHOOSE j \in 0..Len(buffer) :
                /\ DistinctRunAt(buffer, j)
                /\ \A h \in 0..(j - 1) : ~DistinctRunAt(buffer, h)
    IN  SubSeq(buffer, i + 1, i + TableSize)

\* C8: once create_keytable has run on a file holding 256 consecutive
\* pairwise-distinct bytes it has returned exactly those bytes as the table,
\* and it has failed only on a file holding no such run.
KeyTableLoaded ==
    key_result.status # "none" =>
        IF HasDistinctRun(key_file)
        THEN key_result.status = "ok" /\ key_result.table = FirstDistinctRun(key_file)
        ELSE key_result.status = "panic"

(***************************************************************************)
(* The codec create_nsa_archive chooses for one file.                      *)
(***************************************************************************)
CodecPaths ==
    {<<97>>,                          \* a
     <<98, 46, 119, 97, 118>>,        \* b.wav
     <<99, 46, 98, 109, 112>>,        \* c.bmp
     <<68, 46, 87, 65, 86>>,          \* D.WAV
     <<65313, 46, 66, 77, 80>>,       \* A.BMP with a full-width A (U+FF21)
     <<101, 46, 116, 120, 116>>,      \* e.txt
     <<119, 97, 118>>}                \* wav

CodecContents ==
    {<<>>,
     <<104, 105>>,                    \* hi
     <<82, 73, 70, 70, 1>>,           \* RIFF.
     <<82, 73, 70>>,                  \* RIF
     <<66, 77, 2>>,                   \* BM.
     <<66>>}                          \* B

EncInit ==
    /\ build \in Builds
    /\ enc_in \in [path : CodecPaths, data : CodecContents,
                   bzip2 : BOOLEAN, spb : BOOLEAN]
    /\ enc_out = "none"
    /\ SpbIdle /\ KeyIdle /\ ArcIdle

FileEncodingToUse ==
    /\ enc_out = "none"
    /\ enc_out' = file_encoding_to_use(enc_in.path, enc_in.data, enc_in.bzip2, enc_in.spb)
    /\ UNCHANGED <<build, enc_in, spb_vars, key_vars, arc_vars>>

EncNext == FileEncodingToUse

SpecCodec == EncInit /\ [][EncNext]_vars

\* The table of flags and header classes: RIFF, BM, other.
CodecTable(data, bzip2, spb) ==
    IF ~bzip2 /\ ~spb THEN "None"
    ELSE IF StartsWith(data, <<82, 73, 70, 70>>) THEN (IF bzip2 THEN "Bzip2" ELSE "None")
    ELSE IF StartsWith(data, <<66, 77>>)
    THEN (IF spb THEN "Spb" ELSE IF bzip2 THEN "Bzip2" ELSE "None")
    ELSE "None"

HasMediaExtension(path) ==
    \E ext \in {<<46, 119, 97, 118>>, <<46, 98, 109, 112>>} :
        /\ Len(path) >= 4
        /\ \A k \in 1..4 :
              LET c == path[Len(path) - 4 + k]
              IN  c = ext[k] \/ (c >= 65 /\ c <= 90 /\ c + 32 = ext[k])

\* C5 as stated: the codec chosen is the table's, whatever the file's path.
CodecChoiceByContent ==
    enc_out # "none" => enc_out = CodecTable(enc_in.data, enc_in.bzip2, enc_in.spb)

\* C5: the codec chosen is the table's for a file whose path ends, in any
\* letter case, with .wav or .bmp, and RAW for a file of any other path.
CodecChoiceByExtension ==
    enc_out # "none" =>
        enc_out = IF HasMediaExtension(enc_in.path)
                  THEN CodecTable(enc_in.data, enc_in.bzip2, enc_in.spb)
                  ELSE "None"

CodecChoiceWitness ==
    /\ enc_out = "Bzip2"
    /\ enc_in.path = <<68, 46, 87, 65, 86>>
    /\ enc_in.spb

(***************************************************************************)
(* Key tables handed to the writers and to open_file: the identity and the *)
(* permutation that maps every byte to its successor.                      *)
(***************************************************************************)
KeyIds == {"identity", "successor"}

KeyTableOf(id) ==
    IF id = "identity" THEN default_keytable
    ELSE [k \in 1..TableSize |-> k % TableSize]

(***************************************************************************)
(* Writing an archive and reading it back.  The files under root_dir, by   *)
(* inner path and content; names are strings Shift-JIS represents          *)
(* one-to-one (ASCII, half-width katakana, hiragana).                      *)
(***************************************************************************)
MaxFiles == 2
MaxOver == 2

TextFile == [name |-> <<97>>, data |-> <<104, 105>>]
WavFile == [name |-> <<98, 46, 119, 97, 118>>, data |-> <<82, 73, 70, 70, 1>>]
BmpFile == [name |-> <<99, 46, 98, 109, 112>>, data |-> <<66, 77, 2>>]
KanaFile == [name |-> <<12354, 65398>>, data |-> <<>>]
NbzFile == [name |-> <<118, 46, 110, 98, 122>>, data |-> <<104, 105, 33>>]

FilePool == {TextFile, WavFile, BmpFile, KanaFile, NbzFile}

\* Lists of at most MaxFiles files of the pool, no file twice.
FileLists ==
    UNION {{list \in [1..n -> FilePool] :
                \A a \in 1..n : \A b \in 1..n : a # b => list[a] # list[b]} :
           n \in 0..MaxFiles}

\* The k-th of a run of empty files with pairwise different four-letter names.
NumberedFile(k) ==
    [name |-> <<97 + (k % 26), 97 + ((k \div 26) % 26),
                97 + ((k \div 676) % 26), 97 + ((k \div 17576) % 26)>>,
     data |-> <<>>]

\* Lists of 65536 .. 65535 + MaxOver files.
LongLists == {[k \in 1..n |-> NumberedFile(k)] : n \in (U16_MAX + 1)..(U16_MAX + MaxOver)}

WriteOffsets == {0, 2}

WriterArgs ==
    [kind : {"SAR"}, offset : {0}, bzip2 : {FALSE}, spb : {FALSE}, key : KeyIds]
    \cup [kind : {"NSA"}, offset : WriteOffsets, bzip2 : BOOLEAN, spb : BOOLEAN, key : KeyIds]

PlainWriterArgs ==
    [kind : {"SAR", "NSA"}, offset : {0}, bzip2 : {FALSE}, spb : {FALSE},
     key : {"identity"}]

\* The archive is read back as the type it was written as, at base offset 0,
\* with the writer's key table.
WriteInit ==
    /\ build \in Builds
    /\ \/ src_files \in FileLists /\ wargs \in WriterArgs
       \/ src_files \in LongLists /\ wargs \in PlainWriterArgs
    /\ container = NoContainer
    /\ disk = <<>>
    /\ w_result = "none"
    /\ rargs = [type |-> wargs.kind, offset |-> 0, key |-> wargs.key]
    /\ arc = ClosedArchive
    /\ outputs = <<>>
    /\ SpbIdle /\ KeyIdle /\ EncIdle

CreateSarArchive ==
    /\ wargs.kind = "SAR"
    /\ w_result = "none"
    /\ \E written \in {create_sar_archive(src_files, KeyTableOf(wargs.key),
                                           build = "debug")} :
           /\ disk' = written.file
           /\ w_result' = written.result
    /\ UNCHANGED <<build, src_files, wargs, container, rargs, arc, outputs,
                   spb_vars, key_vars, enc_vars>>

CreateNsaArchive ==
    /\ wargs.kind = "NSA"
    /\ w_result = "none"
    /\ \E written \in {create_nsa_archive(src_files, wargs.offset, KeyTableOf(wargs.key),
                                           wargs.bzip2, wargs.spb, build = "debug")} :
           /\ disk' = written.file
           /\ w_result' = written.result
    /\ UNCHANGED <<build, src_files, wargs, container, rargs, arc, outputs,
                   spb_vars, key_vars, enc_vars>>

\* Archive::open_file on the container file.
OpenFile ==
    /\ w_result \in {"true", "given"}
    /\ arc.status = "closed"
    /\ \E opened \in {open_file(disk, rargs.type, rargs.offset, KeyTableOf(rargs.key),
                                 build = "debug")} :
           arc' = [status |-> IF opened.ok THEN "open" ELSE "panic",
                   cursor |-> opened.fh.cursor,
                   position |-> opened.fh.position,
                   index |-> opened.index]
    /\ UNCHANGED <<build, src_files, wargs, container, disk, w_result, rargs, outputs,
                   spb_vars, key_vars, enc_vars>>

\* The FileHelper the open archive holds.
ArchiveFile ==
    [file |-> disk, cursor |-> arc.cursor, position |-> arc.position,
     key_table |-> KeyTableOf(rargs.key)]

\* archive.extract(entry.info()) for the entry at 0-based position i of the
\* index; a panic ends the process ("crashed").
Extract(i) ==
    /\ arc.status = "open"
    /\ i < Len(arc.index.entries)
    /\ \E got \in {extract(ArchiveFile, EntryInfo(arc.index.entries[i + 1]),
                           build = "debug")} :
           /\ outputs' = Append(outputs, [entry |-> i, status |-> got.status,
                                          data |-> got.data, picture |-> got.picture])
           /\ arc' = [arc EXCEPT !.status = IF got.status = "ok" THEN "open"
                                            ELSE IF got.status = "panic" THEN "crashed"
                                            ELSE "huge",
                                 !.cursor = got.fh.cursor,
                                 !.position = got.fh.position]
    /\ UNCHANGED <<build, src_files, wargs, container, disk, w_result, rargs,
                   spb_vars, key_vars, enc_vars>>

\* The loop over archive.index.entries of the extracting front end.
ExtractNext == Extract(Len(outputs))

WriteNext == CreateSarArchive \/ CreateNsaArchive \/ OpenFile \/ ExtractNext

SpecWrite == WriteInit /\ [][WriteNext]_vars

\* The archive read back holds the files' names in order, and the entries
\* extracted so far gave the files' bytes.
ReadsBackAsWritten ==
    /\ w_result \in {"none", "true"}
    /\ arc.status \in {"closed", "open"}
    /\ arc.status = "open" =>
        /\ Len(arc.index.entries) = Len(src_files)
        /\ \A k \in 1..Len(src_files) : arc.index.entries[k].name = src_files[k].name
    /\ \A k \in 1..Len(outputs) :
        /\ outputs[k].status = "ok"
        /\ outputs[k].data = src_files[k].data

AllExtracted == arc.status = "open" /\ Len(outputs) = Len(arc.index.entries)

\* C2: a list of at most 65535 files written by create_sar_archive, opened as
\* SAR with the identity key table and extracted entry by entry, gives the
\* files' names and bytes in the list's order; the archive of the empty list
\* is the six header bytes and nothing else.
SarRoundTrip ==
    (wargs.kind = "SAR" /\ wargs.key = "identity" /\ Len(src_files) <= U16_MAX) =>
        /\ ReadsBackAsWritten
        /\ (w_result = "true" /\ src_files = <<>>) => disk = <<0, 0, 0, 0, 0, 6>>

SarRoundTripWitness ==
    /\ wargs.kind = "SAR" /\ wargs.key = "identity"
    /\ AllExtracted
    /\ Len(src_files) >= 2
    /\ src_files[1] = NbzFile
    /\ outputs[1].data = NbzFile.data

\* C3: a list of at most 65535 files written by create_nsa_archive with
\* bzip2 = false and spb = false, opened as NSA with the identity key table
\* and extracted entry by entry, gives the files' names and bytes in the
\* list's order, lists of two or more files included.
NsaRawRoundTrip ==
    (/\ wargs.kind = "NSA" /\ ~wargs.bzip2 /\ ~wargs.spb
     /\ wargs.key = "identity" /\ Len(src_files) <= U16_MAX) => ReadsBackAsWritten

IsMedia(file) ==
    \/ EndsWith(file.name, ExtWav) /\ StartsWith(file.data, <<82, 73, 70, 70>>)
    \/ EndsWith(file.name, ExtBmp) /\ StartsWith(file.data, <<66, 77>>)

\* C4: in an archive of one file written with bzip2 = true (and spb = false),
\* a .wav starting with RIFF or a .bmp starting with BM is read back with tag
\* BZ2 and extracts to the file's bytes; a text file is read back with tag
\* RAW and extracts to its bytes.
NsaBz2RoundTrip ==
    (/\ wargs.kind = "NSA" /\ wargs.bzip2 /\ ~wargs.spb /\ wargs.key = "identity"
     /\ Len(src_files) = 1 /\ ~EndsWith(src_files[1].name, ExtNbz)) =>
        /\ w_result \in {"none", "true"}
        /\ arc.status \in {"closed", "open"}
        /\ arc.status = "open" =>
              arc.index.entries[1].compression =
                  IF IsMedia(src_files[1]) THEN "Bzip2" ELSE "None"
        /\ \A k \in 1..Len(outputs) :
              outputs[k].status = "ok" /\ outputs[k].data = src_files[k].data

\* C6: an archive of one RAW entry written with key table K and opened and
\* extracted with key table K gives the entry's name and original bytes,
\* for every K.
KeytableRoundTrip ==
    (/\ ~wargs.bzip2 /\ ~wargs.spb /\ Len(src_files) = 1
     /\ ~EndsWith(src_files[1].name, ExtNbz)) => ReadsBackAsWritten

\* C7: a writer given at most 65535 entries returns true; given 65536 or more
\* it returns false and has written no byte.
EntryCountLimit ==
    w_result # "none" =>
        IF Len(src_files) <= U16_MAX THEN w_result = "true"
        ELSE w_result = "false" /\ disk = <<>>

(***************************************************************************)
(* Reading a container laid out by hand.  A container is described by its  *)
(* type, the base offset b it is opened with, the key table it is read     *)
(* through and its entries [name, tag, body, dsize]; the bodies follow one *)
(* another from b + header_end_delta on.  In layout "based" the header     *)
(* starts at byte b; in layout "front" it starts at byte 0 and b bytes lie *)
(* between header and bodies.  The header is stored through the inverse of *)
(* the key table, the bodies as they are.                                  *)
(***************************************************************************)
MaxBase == 1
MaxExtracts == 2

PlainEntry == [name |-> <<97>>, tag |-> 0, body |-> <<104, 105>>, dsize |-> 2]
NbzEntry ==
    [name |-> <<118, 46, 110, 98, 122>>, tag |-> 0,
     body |-> <<0, 0, 0, 3>> \o BzCompress(<<104, 105, 33>>).value, dsize |-> U16_MAX]
SpbEntry ==
    [name |-> <<80, 46, 83, 80, 66>>, tag |-> 1,
     body |-> encode_spb([width |-> 1, height |-> 1,
                          pixel_buffer |-> <<<<10, 20, 30>>>>], FALSE).bytes,
     dsize |-> 0]
LzssEntry == [name |-> <<65398, 12354>>, tag |-> 2, body |-> <<180, 0>>, dsize |-> 1]

EntryPool == {PlainEntry, NbzEntry, SpbEntry, LzssEntry}

EntryLists ==
    UNION {{list \in [1..n -> EntryPool] :
                \A a \in 1..n : \A b \in 1..n : a # b => list[a] # list[b]} :
           n \in 0..MaxFiles}

Containers ==
    {c \in [type : {"SAR", "NSA", "NS2"}, layout : {"front", "based"},
            base : 0..MaxBase, key : KeyIds, entries : EntryLists] :
        c.base = 0 => c.layout = "front"}

InverseKeyTableOf(id) ==
    IF id = "identity" THEN default_keytable
    ELSE [k \in 1..TableSize |-> (k + TableSize - 2) % TableSize]

\* entry_offset_delta of the k-th entry: the bodies are contiguous.
RECURSIVE BodyDelta(_, _)
BodyDelta(entries, k) ==
    IF k <= 1 THEN 0 ELSE BodyDelta(entries, k - 1) + Len(entries[k - 1].body)

BytesLE(value, n) == Reverse(BytesBE(value, n))

\* The header record of the k-th entry.
EntryRecord(type, entries, k) ==
    LET e == entries[k]
        name == SjisEncode(e.name).bytes
    IN  IF type = "SAR"
        THEN name \o <<0>> \o BytesBE(BodyDelta(entries, k), 4) \o BytesBE(Len(e.body), 4)
        ELSE IF type = "NSA"
        THEN name \o <<0, e.tag>> \o BytesBE(BodyDelta(entries, k), 4)
                  \o BytesBE(Len(e.body), 4) \o BytesBE(e.dsize, 4)
        ELSE <<34>> \o name \o <<34>> \o BytesLE(Len(e.body), 4)

RECURSIVE EntryRecords(_, _, _)
EntryRecords(type, entries, k) ==
    IF k > Len(entries) THEN <<>>
    ELSE EntryRecord(type, entries, k) \o EntryRecords(type, entries, k + 1)

RECURSIVE Bodies(_, _)
Bodies(entries, k) ==
    IF k > Len(entries) THEN <<>> ELSE entries[k].body \o Bodies(entries, k + 1)

\* header_end_delta: the length of the header.
HeaderEndDelta(c) ==
    Len(EntryRecords(c.type, c.entries, 1)) + (IF c.type = "NS2" THEN 5 ELSE 6)

HeaderOf(c) ==
    IF c.type = "NS2"
    THEN BytesLE(HeaderEndDelta(c), 4) \o EntryRecords(c.type, c.entries, 1) \o <<101>>
    ELSE BytesBE(Len(c.entries), 2) \o BytesBE(HeaderEndDelta(c), 4)
             \o EntryRecords(c.type, c.entries, 1)

Filler(n) == [k \in 1..n |-> 238]

ContainerBytes(c) ==
    LET header == Substitute(InverseKeyTableOf(c.key), HeaderOf(c))
    IN  IF c.layout = "based" THEN Filler(c.base) \o header \o Bodies(c.entries, 1)
        ELSE header \o Filler(c.base) \o Bodies(c.entries, 1)

ReadInit ==
    /\ build \in Builds
    /\ container \in Containers
    /\ disk = ContainerBytes(container)
    /\ w_result = "given"
    /\ rargs = [type |-> container.type, offset |-> container.base, key |-> container.key]
    /\ src_files = <<>>
    /\ wargs = NoWargs
    /\ arc = ClosedArchive
    /\ outputs = <<>>
    /\ SpbIdle /\ KeyIdle /\ EncIdle

\* An extract call of the front end, for any entry of the index.
ExtractAny ==
    /\ Len(outputs) < MaxExtracts
    /\ \E i \in 0..(MaxFiles + 1) : Extract(i)

ReadNext == OpenFile \/ ExtractAny

SpecRead == ReadInit /\ [][ReadNext]_vars

Opened == arc.status \in {"open", "crashed", "huge"}

\* What the SAR directory described by c says of its k-th entry.
DescribedSarEntry(c, k) ==
    [name |-> c.entries[k].name,
     offset |-> c.base + HeaderEndDelta(c) + BodyDelta(c.entries, k),
     size |-> Len(c.entries[k].body),
     decompressed_size |-> <<Len(c.entries[k].body)>>,
     compression |-> "None"]

\* C9: parse_sar_header, given a well-formed SAR header of n entries and a
\* base offset, returns an index of exactly n entries in header order, entry
\* i with offset = base_offset + header_end_delta + entry_offset_delta_i,
\* size = entry_size_i, tag RAW and decompressed_size = size, whatever the
\* entry's name.
SarHeaderParse ==
    (container.type = "SAR" /\ container.layout = "front" /\ arc.status # "closed") =>
        /\ Opened
        /\ Len(arc.index.entries) = Len(container.entries)
        /\ \A k \in 1..Len(container.entries) :
              arc.index.entries[k] = DescribedSarEntry(container, k)

SarHeaderParseWitness ==
    /\ container.type = "SAR" /\ container.layout = "front" /\ container.base > 0
    /\ arc.status = "open"
    /\ Len(arc.index.entries) = 2
    /\ arc.index.entries[2].name = NbzEntry.name
    /\ arc.index.entries[1].name = SpbEntry.name

\* C10: open_file with base offset b reads the header fields from byte b of
\* the container on: a container whose header starts at byte b is opened
\* with the entries its header names, in order.
HeaderReadAtBase ==
    (container.layout = "based" /\ arc.status # "closed") =>
        /\ Opened
        /\ Len(arc.index.entries) = Len(container.entries)
        /\ \A k \in 1..Len(container.entries) :
              arc.index.entries[k].name = container.entries[k].name

\* The same for b = 0.
HeaderReadAtZero ==
    (container.base = 0 /\ arc.status # "closed") =>
        /\ Opened
        /\ Len(arc.index.entries) = Len(container.entries)
        /\ \A k \in 1..Len(container.entries) :
              arc.index.entries[k].name = container.entries[k].name

(***************************************************************************)
(* Opening containers of any content.  The entries differ in name and tag  *)
(* independently, a list may hold a name twice, the decompressed-size      *)
(* field need not be the size, and the file may be cut short.  An NS2      *)
(* container opened with base offset b is laid out "counted": its header   *)
(* starts at byte 0 and its first field holds the header's length less b,  *)
(* so that the bodies begin at b + header_end_delta.  The front end        *)
(* extracts the entries in index order.                                    *)
(***************************************************************************)
BzBody == <<0, 0, 0, 3>> \o BzCompress(<<104, 105, 33>>).value

\* v.nbz, tag 0, decompressed-size field 0xFFFFFFFF.
FieldNbz ==
    [name |-> <<118, 46, 110, 98, 122>>, tag |-> 0, body |-> BzBody, dsize |-> -1]
\* V.NBZ, tag 0.
UpperNbz == [name |-> <<86, 46, 78, 66, 90>>, tag |-> 0, body |-> BzBody, dsize |-> 3]
\* P.SPB with a full-width P (U+FF30), tag 0.
UpperSpb == [SpbEntry EXCEPT !.tag = 0, !.name = <<65328, 46, 83, 80, 66>>]
\* v.nbz, tag 1.
SpbByTag == [SpbEntry EXCEPT !.name = <<118, 46, 110, 98, 122>>]
\* q.spb, tag 2.
LzssByTag == [LzssEntry EXCEPT !.name = <<113, 46, 115, 112, 98>>]
\* a, tag 4.
BzByTag == [name |-> <<97>>, tag |-> 4, body |-> BzBody, dsize |-> 3]
\* u, tag 3.
UnknownTag == [name |-> <<117>>, tag |-> 3, body |-> <<104, 105>>, dsize |-> 2]
\* a, tag 0, decompressed-size field 7 for a body of 2 bytes.
PlainMismatch == [PlainEntry EXCEPT !.dsize = 7]

OpenPool ==
    {PlainEntry, FieldNbz, UpperNbz, UpperSpb, SpbByTag, LzssByTag, BzByTag,
     UnknownTag, PlainMismatch}

\* Lists of at most MaxFiles entries of the pool, an entry any number of times.
OpenLists == UNION {[1..n -> OpenPool] : n \in 0..MaxFiles}

OpenContainers ==
    {c \in [type : {"SAR", "NSA", "NS2"}, layout : {"front", "counted"},
            base : 0..MaxBase, key : {"identity"}, entries : OpenLists] :
        /\ c.type = "NS2" <=> c.layout = "counted"
        /\ c.type # "NS2" => c.base = 0}

\* The bytes of an NS2 container laid out "counted"; the byte behind the
\* entries is 0.
CountedBytes(c) ==
    BytesLE(HeaderEndDelta(c) - c.base, 4) \o EntryRecords(c.type, c.entries, 1)
        \o <<0>> \o Bodies(c.entries, 1)

OpenBytes(c) == IF c.layout = "counted" THEN CountedBytes(c) ELSE ContainerBytes(c)

\* The file without its last `cut` bytes.
CutShort(bytes, cut) == SubSeq(bytes, 1, Len(bytes) - cut)

Cuts == {0, 1}

\* The NS2 file 0D 00 00 00 "a.txt" 02 00 00 00 00 48 69 and what it is
\* said to hold.
ScenarioBytes ==
    <<13, 0, 0, 0, 34, 97, 46, 116, 120, 116, 34, 2, 0, 0, 0, 0, 72, 105>>

ScenarioContainer ==
    [type |-> "NS2", layout |-> "scenario", base |-> 0, key |-> "identity",
     entries |-> <<[name |-> <<97, 46, 116, 120, 116>>, tag |-> 0,
                    body |-> <<72, 105>>, dsize |-> 2]>>]

\* The same entry in a file whose first field is the header's length, 16.
CountedScenario == [ScenarioContainer EXCEPT !.layout = "counted"]

OpenInit ==
    /\ build \in Builds
    /\ \/ /\ container \in OpenContainers
          /\ disk \in {CutShort(OpenBytes(container), cut) : cut \in Cuts}
       \/ /\ container \in {ScenarioContainer, CountedScenario}
          /\ disk = IF container.layout = "scenario" THEN ScenarioBytes
                    ELSE CountedBytes(container)
    /\ w_result = "given"
    /\ rargs = [type |-> container.type, offset |-> container.base, key |-> container.key]
    /\ src_files = <<>>
    /\ wargs = NoWargs
    /\ arc = ClosedArchive
    /\ outputs = <<>>
    /\ SpbIdle /\ KeyIdle /\ EncIdle

OpenNext == OpenFile \/ ExtractNext

SpecOpen == OpenInit /\ [][OpenNext]_vars

\* The ASCII letters of text in lower case.
Lowered(text) ==
    [k \in 1..Len(text) |-> IF text[k] \in 65..90 THEN text[k] + 32 ELSE text[k]]

HasSuffix(text, suffix) ==
    /\ Len(text) >= Len(suffix)
    /\ \A k \in 1..Len(suffix) : text[Len(text) - Len(suffix) + k] = suffix[k]

\* The effective tag of an NSA entry by the rule of the format.
EffectiveTag(tag, name) ==
    IF tag = 1 THEN "Spb"
    ELSE IF tag = 2 THEN "Lzss"
    ELSE IF tag = 4 THEN "Bzip2"
    ELSE IF HasSuffix(Lowered(name), <<46, 110, 98, 122>>) THEN "Bzip2"
    ELSE IF HasSuffix(Lowered(name), <<46, 115, 112, 98>>) THEN "Spb"
    ELSE "None"

\* C11: in the index of an opened NSA container entry k has the effective
\* tag of its on-disk tag and name (1 -> SPB, 2 -> LZSS, 4 -> BZ2 whatever
\* the name; 0 -> BZ2 for .nbz, SPB for .spb in any letter case, else RAW),
\* and an entry whose effective tag is BZ2 or SPB has no decompressed_size
\* whatever its on-disk field holds.
NsaEffectiveTag ==
    (container.type = "NSA" /\ Opened) =>
        /\ Len(arc.index.entries) = Len(container.entries)
        /\ \A k \in 1..Len(container.entries) :
              /\ arc.index.entries[k].compression =
                     EffectiveTag(container.entries[k].tag, container.entries[k].name)
              /\ arc.index.entries[k].compression \in {"Bzip2", "Spb"} =>
                     arc.index.entries[k].decompressed_size = <<>>

NsaEffectiveTagWitness ==
    /\ container.type = "NSA" /\ arc.status = "open"
    /\ container.entries = <<FieldNbz, SpbByTag>>
    /\ arc.index.entries[1].compression = "Bzip2"
    /\ arc.index.entries[1].decompressed_size = <<>>
    /\ arc.index.entries[2].compression = "Spb"

KnownTags == {0, 1, 2, 4}

HasUnknownTag(c) == \E k \in 1..Len(c.entries) : c.entries[k].tag \notin KnownTags

\* C12: open_file on an NSA container in which some entry's tag byte is not
\* one of 0, 1, 2, 4 ends in a panic and leaves no index.
UnknownTagRejected ==
    (container.type = "NSA" /\ HasUnknownTag(container) /\ arc.status # "closed") =>
        /\ arc.status = "panic"
        /\ arc.index = EmptyIndex

UnknownTagRejectedWitness ==
    /\ container.type = "NSA"
    /\ container.entries = <<PlainEntry, UnknownTag>>
    /\ Len(disk) = Len(OpenBytes(container))
    /\ arc.status = "panic"

\* The container file is whole.
WholeFile == Len(disk) = Len(OpenBytes(container))

\* C13: parse_ns2_header on an NS2 header whose entries end at position
\* base_offset + header_end_delta - 1 reads exactly those entries and then
\* one more byte, so that it stops at base_offset + header_end_delta; entry
\* k of the index has offset = base_offset + header_end_delta + the sizes of
\* the entries before it, and tag BZ2 for a name ending in .nbz, SPB for
\* .spb (in any letter case), else RAW.
Ns2HeaderParse ==
    (container.layout = "counted" /\ WholeFile /\ arc.status # "closed") =>
        /\ Opened
        /\ outputs = <<>> => arc.position = HeaderEndDelta(container)
        /\ Len(arc.index.entries) = Len(container.entries)
        /\ \A k \in 1..Len(container.entries) :
              /\ arc.index.entries[k].name = container.entries[k].name
              /\ arc.index.entries[k].size = Len(container.entries[k].body)
              /\ arc.index.entries[k].offset =
                     HeaderEndDelta(container) + BodyDelta(container.entries, k)
              /\ arc.index.entries[k].compression =
                     EffectiveTag(0, container.entries[k].name)

Ns2HeaderParseWitness ==
    /\ container.layout = "counted" /\ container.base > 0 /\ WholeFile
    /\ arc.status = "open" /\ outputs = <<>>
    /\ container.entries = <<UpperNbz, PlainEntry>>
    /\ arc.index.entries[1].compression = "Bzip2"
    /\ arc.index.entries[2].offset = arc.index.entries[1].offset + Len(BzBody)

\* The index of the scenario: one entry a.txt of size 2 at `offset`.
ScenarioIndex(offset) ==
    /\ arc.status # "closed" => Opened
    /\ Opened =>
        /\ Len(arc.index.entries) = 1
        /\ arc.index.entries[1].name = <<97, 46, 116, 120, 116>>
        /\ arc.index.entries[1].size = 2
        /\ arc.index.entries[1].offset = offset

\* extract of the entry has given `data`.
ScenarioExtract(data) ==
    Len(outputs) >= 1 => (outputs[1].status = "ok" /\ outputs[1].data = data)

\* C14 as stated: the 18 bytes opened as NS2 give one entry a.txt of size 2
\* at offset 13, and extract of it returns 48 69.
Ns2ScenarioAsStated ==
    container = ScenarioContainer =>
        (ScenarioIndex(13) /\ ScenarioExtract(<<72, 105>>))

\* C14: the 18 bytes opened as NS2 give one entry a.txt of size 2 at offset
\* 13, and extract of it returns the bytes at offsets 13 and 14 of the file,
\* 00 00; the same file with first byte 10 (the length of its header) gives
\* the entry at offset 16, and extract of it returns 48 69.
Ns2Scenario ==
    /\ container = ScenarioContainer =>
            (ScenarioIndex(13) /\ ScenarioExtract(<<0, 0>>))
    /\ container = CountedScenario =>
            (ScenarioIndex(16) /\ ScenarioExtract(<<72, 105>>))

Ns2ScenarioWitness ==
    /\ container = ScenarioContainer
    /\ disk = ScenarioBytes
    /\ arc.status = "open"
    /\ Len(outputs) = 1
    /\ outputs[1].data = <<0, 0>>

(***************************************************************************)
(* What extract does with the stored bytes of an entry.                    *)
(***************************************************************************)
\* The bytes of the container file at [offset, offset + size), zero behind
\* the end of the file.
StoredBytes(entry) ==
    [j \in 1..entry.size |->
        IF entry.offset + j <= Len(disk) THEN disk[entry.offset + j] ELSE 0]

\* byte_out = keytable[byte_in].
ThroughKey(bytes) == [j \in 1..Len(bytes) |-> KeyTableOf(rargs.key)[bytes[j] + 1]]

\* What an extract call must have given for an entry of the index.
Dispatched(entry, out) ==
    IF entry.compression = "None"
    THEN out.status = "ok" /\ out.data = ThroughKey(StoredBytes(entry))
    ELSE IF entry.compression = "Lzss"
    THEN out.status = "ok" /\ out.data = LzssDecompress(ThroughKey(StoredBytes(entry)))
    ELSE IF entry.compression = "Spb"
    THEN IF decode_spb(StoredBytes(entry), build = "debug").panic
         THEN out.status = "panic"
         ELSE /\ out.status = "ok"
              /\ out.picture = decode_spb(StoredBytes(entry), build = "debug")
    ELSE IF entry.size < 4
            \/ ~BzDecompress(SubSeq(StoredBytes(entry), 5, entry.size)).ok
         THEN out.status = "panic"
         ELSE /\ out.status = "ok"
              /\ out.data = BzDecompress(SubSeq(StoredBytes(entry), 5, entry.size)).data

\* C15: every extract call has substituted the stored bytes of its entry
\* through the key table exactly when the entry's tag is RAW or LZSS, and
\* has handed them to the codec as stored when the tag is SPB or BZ2; for
\* RAW the result is the substituted bytes, byte_out = keytable[byte_in].
ExtractDispatch ==
    \A k \in 1..Len(outputs) :
        outputs[k].status # "huge" =>
            Dispatched(arc.index.entries[outputs[k].entry + 1], outputs[k])

\* With the key table that maps each byte to its successor: the RAW entry
\* "hi" comes out as "ij", the SPB entry as its picture.
ExtractDispatchWitness ==
    /\ rargs.key = "successor" /\ container.type = "NSA"
    /\ container.entries = <<PlainEntry, SpbEntry>>
    /\ Len(outputs) = 2
    /\ outputs[1].entry = 0 /\ outputs[1].data = <<105, 106>>
    /\ outputs[2].entry = 1 /\ outputs[2].status = "ok"
    /\ outputs[2].picture.pixels[<<0, 0>>] = <<30, 20, 10, 255>>

\* C16: once open_file has returned, index.offset is the offset at which
\* the entry bodies begin (for NS2 too), and every entry of the index has
\* index.offset <= offset and offset + size <= the length of the container.
EntryRangeInvariant ==
    Opened =>
        /\ container.layout \in {"front", "counted"} =>
               arc.index.offset = HeaderEndDelta(container)
        /\ \A k \in 1..Len(arc.index.entries) :
              /\ arc.index.offset <= arc.index.entries[k].offset
              /\ arc.index.entries[k].offset + arc.index.entries[k].size <= Len(disk)

\* C17: once open_file has returned, the names of the index are pairwise
\* distinct and entries_map has exactly one key per entry, with
\* entries_map[entries[i].name] = i for every position i.
NameIndexInvariant ==
    Opened =>
        /\ \A i \in 1..Len(arc.index.entries) : \A j \in 1..Len(arc.index.entries) :
              i # j => arc.index.entries[i].name # arc.index.entries[j].name
        /\ Cardinality(DOMAIN arc.index.entries_map) = Len(arc.index.entries)
        /\ \A i \in 1..Len(arc.index.entries) :
              /\ arc.index.entries[i].name \in DOMAIN arc.index.entries_map
              /\ arc.index.entries_map[arc.index.entries[i].name] = i - 1

\* C18: once open_file has returned for a SAR, NSA or NS2 container, every
\* entry of the index whose compression is None (effective tag RAW) has a
\* known decompressed_size equal to its stored size.
RawSizeInvariant ==
    Opened =>
        \A k \in 1..Len(arc.index.entries) :
            arc.index.entries[k].compression = "None" =>
                arc.index.entries[k].decompressed_size =
                    <<arc.index.entries[k].size>>

(***************************************************************************)
(* Header selection: encode_spb on 5x1 rows.  The first pixel gives the    *)
(* literal first byte of each channel (the previous byte), the other four  *)
(* are the one window handed to bit_distances; no padding is involved.     *)
(***************************************************************************)
\* Steps of 0, 1, 3, 4, 16, 19, 20, 64, 84 and more in both directions, so
\* that every max_bits_to_read of 0..7 occurs with and without an add.
SampleValues == {36, 100, 101, 104, 120, 228}

RowImage(s) ==
    [width |-> 5, height |-> 1,
     pixel_buffer |-> [k \in 1..5 |-> <<s[k], s[k], s[k]>>]]

\* Rows named in the text: four steps of +1, and a first step of 128.
ExampleRows ==
    {<<100, 101, 102, 103, 104>>, <<104, 103, 102, 101, 100>>,
     <<100, 228, 228, 228, 228>>, <<228, 100, 100, 100, 100>>}

RowImages == {RowImage(s) : s \in [1..5 -> SampleValues] \cup ExampleRows}

HeaderInit ==
    /\ build \in Builds
    /\ image \in RowImages
    /\ spb_data = <<>>
    /\ bmp = NoPicture
    /\ spb_pc = "input"
    /\ KeyIdle /\ EncIdle /\ ArcIdle

SpecHeader == HeaderInit /\ [][SpbNext]_vars

\* The selection table as stated: the number of bits of a magnitude, the
\* byte in front of sample k, its add flag and its magnitude.
BitLength(v) == CHOOSE n \in 0..8 : v < Pow2(n) /\ (n = 0 \/ Pow2(n - 1) <= v)

PrevOf(row, k) == row[k][1]
SampleOf(row, k) == row[k + 1][1]
AddOf(row, k) == PrevOf(row, k) < SampleOf(row, k)
MagnitudeOf(row, k) ==
    IF AddOf(row, k) THEN AbsDiff(PrevOf(row, k), SampleOf(row, k)) - 1
    ELSE AbsDiff(PrevOf(row, k), SampleOf(row, k))
MaxBitsOf(row) ==
    Max(Max(BitLength(MagnitudeOf(row, 1)), BitLength(MagnitudeOf(row, 2))),
        Max(BitLength(MagnitudeOf(row, 3)), BitLength(MagnitudeOf(row, 4))))
AnyAdd(row) == \E k \in 1..4 : AddOf(row, k)

\* The chunk of channel 0 in the output of a 5x1 row: it starts behind the
\* 32 bits of width and height and the 8 bits of the first byte.
ChunkHeader(bits) == FromBits(SubSeq(bits, 41, 43))
ChunkFlag(bits) == bits[44]

HeaderTable(row, header, b) ==
    /\ (header = 0) <=> (MaxBitsOf(row) = 0 /\ ~AnyAdd(row))
    /\ (header = 7 /\ b = 0) <=> (MaxBitsOf(row) = 0 /\ AnyAdd(row))
    /\ (header = 7 /\ b = 1) <=> (MaxBitsOf(row) = 1)
    /\ \A h \in 1..5 : (header = h) <=> (MaxBitsOf(row) = h + 1)
    /\ (header = 6) <=> (MaxBitsOf(row) >= 7)

\* C19: encode_spb of a 5x1 row never panics, and the chunk it writes for
\* the four samples behind the first byte has header 0 iff max_bits = 0 and
\* no sample used add, header 7 with b = 0 iff max_bits = 0 and some sample
\* used add, header 7 with b = 1 iff max_bits = 1, header max_bits - 1 iff
\* 2 <= max_bits <= 6 and header 6 iff max_bits >= 7; 101,102,103,104 after
\* 100 give the bits 111 0 1 1 1 1, and a first step of 128 gives header 110
\* followed by the four samples as literal bytes.
HeaderSelection ==
    (image \in RowImages /\ spb_pc # "input") =>
        /\ spb_pc # "panicked"
        /\ HeaderTable(image.pixel_buffer, ChunkHeader(UnpackBits(spb_data)),
                       ChunkFlag(UnpackBits(spb_data)))
        /\ image = RowImage(<<100, 101, 102, 103, 104>>) =>
               SubSeq(UnpackBits(spb_data), 41, 48) = <<1, 1, 1, 0, 1, 1, 1, 1>>
        /\ image = RowImage(<<100, 228, 228, 228, 228>>) =>
               SubSeq(UnpackBits(spb_data), 41, 75) =
                   <<1, 1, 0>> \o ToBits(228, 8) \o ToBits(228, 8)
                   \o ToBits(228, 8) \o ToBits(228, 8)

HeaderSelectionWitness ==
    /\ image = RowImage(<<100, 101, 102, 103, 104>>)
    /\ spb_pc = "encoded"
    /\ ChunkHeader(UnpackBits(spb_data)) = 7
    /\ ChunkFlag(UnpackBits(spb_data)) = 0

\* An image whose pixels are all equal, and the output made of Stamp4 chunks
\* alone: per channel the first byte, then 000 for every window.
AllEqual(img) ==
    \A k \in 1..Len(img.pixel_buffer) : img.pixel_buffer[k] = img.pixel_buffer[1]

WindowCount(img) == (img.width * img.height + 2) \div 4

StampedChannel(img, ch) ==
    ToBits(img.pixel_buffer[1][ch + 1], 8)
    \o [k \in 1..(3 * WindowCount(img)) |-> 0]

\* C20: encode_spb of an image whose pixels are all equal writes, for every
\* channel, the first byte followed by one Stamp4 header (000, no payload)
\* per window, the final window that runs into the padding included.
TailPaddingStamps ==
    (spb_pc \in {"encoded", "decoded"} /\ image \in Images /\ AllEqual(image)) =>
        spb_data = PackBits(ToBits(image.width, 16) \o ToBits(image.height, 16)
                            \o StampedChannel(image, 0) \o StampedChannel(image, 1)
                            \o StampedChannel(image, 2))

(***************************************************************************)
(* decode_spb on byte strings of any origin: the two dimensions followed   *)
(* by up to MaxStream bytes of channel data.                               *)
(***************************************************************************)
MaxStream == 6

\* 255 and 0 as first bytes; 232 = 111 0 1 0 0 0 (header 7, b = 0, a field
\* that adds 1); 40 = 001 010 00 (header 1, a 3-bit field that subtracts 1).
StreamBytes == {0, 40, 232, 255}

StreamDimensions == {<<1, 1>>, <<2, 1>>}

Streams ==
    UNION {{<<0, d[1], 0, d[2]>> \o body : body \in [1..n -> StreamBytes]} :
               <<d, n>> \in StreamDimensions \X (0..MaxStream)}

DecodeInit ==
    /\ build \in Builds
    /\ image = NoImage
    /\ spb_data \in Streams
    /\ bmp = NoPicture
    /\ spb_pc = "encoded"
    /\ KeyIdle /\ EncIdle /\ ArcIdle

DecodeNext == DecodeSpb

SpecDecode == DecodeInit /\ [][DecodeNext]_vars

\* C21: whatever the bytes handed to decode_spb, the call returns what a
\* decoder with a wrapping single-byte accumulator returns: every update
\* prev + m + 1 and prev - m is taken modulo 256 and no overflow or
\* underflow aborts the call.
DecodeWraps ==
    (image = NoImage /\ spb_pc \in {"decoded", "panicked"}) =>
        bmp = decode_spb(spb_data, FALSE)

\* The four bytes at 0-based position pos of the container are value as a
\* big-endian u32.
SlotHolds(file, pos, value) ==
    /\ pos + 4 <= Len(file)
    /\ SubSeq(file, pos + 1, pos + 4) = BytesBE(value, 4)

RECURSIVE LengthBefore(_, _)
LengthBefore(entries, k) ==
    IF k = 1 THEN 0 ELSE LengthBefore(entries, k - 1) + Len(entries[k - 1].data)

\* create_sar_archive appends the files one behind the other from
\* end_of_header on; first is the outcome of its first loop.
SarBackPatched(first) ==
    /\ SlotHolds(disk, 2, first.fh.position)
    /\ \A k \in 1..Len(src_files) :
          /\ SlotHolds(disk, first.locations[k], LengthBefore(src_files, k))
          /\ SlotHolds(disk, first.locations[k] + 4, Len(src_files[k].data))
          /\ SubSeq(disk, first.fh.position + LengthBefore(src_files, k) + 1,
                    first.fh.position + LengthBefore(src_files, k)
                        + Len(src_files[k].data)) = src_files[k].data

\* w is the run of create_nsa_archive: where each body went and how long it
\* is, against the slots left in the file.
NsaBackPatched(w) ==
    /\ SlotHolds(disk, 2, w.end_of_header)
    /\ \A k \in 1..Len(src_files) :
          /\ SlotHolds(disk, w.locations[k][1], w.bodies[k].offset - w.end_of_header)
          /\ SlotHolds(disk, w.locations[k][1] + 4, w.bodies[k].length)

\* C22: when a writer has returned true, the header_end_delta field holds
\* end_of_header and, for every entry, the offset slot holds the position
\* where its body starts minus end_of_header and the size slot holds the
\* number of bytes appended for that body.
BackPatched ==
    (w_result = "true" /\ src_files \in FileLists) =>
        IF wargs.kind = "SAR"
        THEN SarBackPatched(SarFirstPass(
                 write_u32_be(write_u16_be(NewFileHelper(<<>>, KeyTableOf(wargs.key)),
                                           Len(src_files)), 0),
                 src_files, 1, <<>>))
        ELSE NsaBackPatched(NsaWrite(src_files, wargs.offset, KeyTableOf(wargs.key),
                                     wargs.bzip2, wargs.spb, build = "debug"))

\* The bytes create_nsa_archive appended for entry k of the run w.
WrittenBody(w, k) ==
    SubSeq(disk, w.bodies[k].offset + 1, w.bodies[k].offset + w.bodies[k].length)

BodyLayout(w) ==
    /\ w.result = "true"
    /\ \A k \in 1..Len(src_files) :
          w.locations[k][2] = "Bzip2" =>
              /\ WrittenBody(w, k) =
                     BytesLE(Len(src_files[k].data), 4) \o BzCompress(src_files[k].data).value
              /\ BzDecompress(SubSeq(WrittenBody(w, k), 5, Len(WrittenBody(w, k)))).ok

\* C23: when create_nsa_archive has returned true, the body of every entry
\* it wrote with tag BZ2 is the source length as a 4-byte little-endian
\* integer followed by the bzip2 stream of the source, so that the body
\* without its first four bytes is a valid bzip2 stream.
Bz2BodyLayout ==
    (w_result = "true" /\ wargs.kind = "NSA" /\ src_files \in FileLists) =>
        BodyLayout(NsaWrite(src_files, wargs.offset, KeyTableOf(wargs.key),
                            wargs.bzip2, wargs.spb, build = "debug"))

\* What the writer of the state returns when handed the key table `id`.
WriterRun(id) ==
    IF wargs.kind = "SAR"
    THEN create_sar_archive(src_files, KeyTableOf(id), build = "debug")
    ELSE create_nsa_archive(src_files, wargs.offset, KeyTableOf(id),
                            wargs.bzip2, wargs.spb, build = "debug")

SameOutput(run) ==
    /\ run.result = w_result
    /\ run.file = disk

\* C24: the result and the bytes a writer left in the container are those
\* it leaves for the same entries, contents and flags under every other
\* key_table argument.
WriterIgnoresKeytable ==
    (w_result # "none" /\ src_files \in FileLists) =>
        \A id \in KeyIds : SameOutput(WriterRun(id))

WriterIgnoresKeytableWitness ==
    /\ w_result = "true"
    /\ wargs.key = "successor"
    /\ src_files = <<TextFile, WavFile>>
    /\ SubSeq(disk, 1, 2) = <<0, 2>>
    /\ SubSeq(disk, Len(disk) - 4, Len(disk)) = WavFile.data

\* The three channels decode_spb reads from the bytes, with the position in
\* the bit stream each one ended at.
ChannelsRead(bytes, total) ==
    DecodeChannels(UnpackBits(bytes), 32, total, FALSE, 3, <<>>)

\* Each channel is one literal and `count` chunks, and behind the third
\* channel only the padding of the last byte is left.
ChunksRead(read, bytes, count) ==
    /\ read.ok
    /\ \A c \in 1..3 : read.channels[c].chunks = count
    /\ 8 * Len(bytes) - read.channels[3].pos < 8

\* C25: encode_spb of a w x h image does not panic and writes, per channel,
\* one 8-bit literal and ceil((w*h - 1) / 4) chunks: decode_spb reads that
\* many chunks per channel and is then at the end of the stream; a 1x1
\* image gives the two dimensions and one literal byte per channel.
ChunkCount ==
    (image \in Images /\ spb_pc # "input") =>
        /\ spb_pc # "panicked"
        /\ ChunksRead(ChannelsRead(spb_data, image.width * image.height), spb_data,
                      WindowCount(image))
        /\ spb_pc = "decoded" =>
               bmp.chunks = <<WindowCount(image), WindowCount(image), WindowCount(image)>>
        /\ image.width * image.height = 1 =>
               spb_data = <<0, 1, 0, 1>> \o image.pixel_buffer[1]

ChunkCountWitness ==
    /\ image \in Images
    /\ image.width = 3 /\ image.height = 2
    /\ spb_pc = "decoded"
    /\ bmp.chunks = <<2, 2, 2>>

\* The bodies noted by the second loop of the run w lie behind the header,
\* one behind the other in entry order.
BodiesBehindHeader(w) ==
    /\ w.result \in {"true", "panic"}
    /\ \A k \in 1..Len(w.bodies) :
          /\ w.bodies[k].offset >= w.end_of_header
          /\ k > 1 => w.bodies[k - 1].offset + w.bodies[k - 1].length
                          <= w.bodies[k].offset

\* 1-based position p of the container lies in the offset, size or
\* decompressed-size slot of some entry.
InSlot(locations, p) ==
    \E k \in 1..Len(locations) : locations[k][1] < p /\ p <= locations[k][1] + 12

\* The names and tags the first loop wrote are still in the container.
HeaderKept(first) ==
    /\ first.ok
    /\ \A p \in 7..first.fh.position :
          InSlot(first.locations, p) \/ (p <= Len(disk) /\ disk[p] = first.fh.file[p])

\* C26: once create_nsa_archive has run its second loop, every body offset
\* it noted is >= end_of_header, the bodies lie one behind the other in
\* entry order, and the names and tags of the header are as the first loop
\* wrote them.
NsaHeaderIntact ==
    (w_result \in {"true", "panic"} /\ wargs.kind = "NSA" /\ src_files \in FileLists) =>
        /\ BodiesBehindHeader(NsaWrite(src_files, wargs.offset, KeyTableOf(wargs.key),
                                       wargs.bzip2, wargs.spb, build = "debug"))
        /\ HeaderKept(NsaFirstPass(
               write_u32_be(write_u16_be(NewFileHelper(<<>>, KeyTableOf(wargs.key)),
                                         Len(src_files)), 0),
               src_files, 1, <<>>, wargs.bzip2, wargs.spb))

\* The entry the last extract call was made for.
LastExtracted == arc.index.entries[outputs[Len(outputs)].entry + 1]

\* C27: while the archive is open (after open_file and after every extract
\* that returned), the tracked position of its FileHelper equals the cursor
\* of the underlying file, and after an extract, whose read_slice(offset,
\* size) is the last FileHelper operation, it equals offset + size.
TrackedPosition ==
    arc.status = "open" =>
        /\ arc.position = arc.cursor
        /\ outputs # <<>> =>
               arc.position = LastExtracted.offset + LastExtracted.size

\* What open_file returned for the container of the state.
FreshArchive ==
    open_file(disk, rargs.type, rargs.offset, KeyTableOf(rargs.key), build = "debug")

\* Call k of the history gave what the same call gives on the archive as
\* open_file left it.
AsFirstCall(fresh, k) ==
    /\ fresh.ok
    /\ outputs[k].entry < Len(fresh.index.entries)
    /\ \E got \in {extract(fresh.fh, EntryInfo(fresh.index.entries[outputs[k].entry + 1]),
                           build = "debug")} :
           /\ outputs[k].status = got.status
           /\ outputs[k].data = got.data
           /\ outputs[k].picture = got.picture

\* C28: on an opened archive every extract call of the history, in any
\* order and with repeats, returned what it returns as the first call
\* after open_file, and the entries, the name map and the offset of the
\* index are those open_file built.
ExtractHistoryIndependent ==
    Opened =>
        /\ arc.index = FreshArchive.index
        /\ \A k \in 1..Len(outputs) : AsFirstCall(FreshArchive, k)

ExtractHistoryIndependentWitness ==
    /\ arc.status = "open"
    /\ Len(outputs) = 2
    /\ Len(arc.index.entries) = 2
    /\ outputs[1].entry = 1
    /\ outputs[2].entry = 1
    /\ outputs[1].status = "ok"
    /\ outputs[2].data = outputs[1].data
    /\ outputs[2].data # <<>>

\* C29: when an archive written by create_nsa_archive has been reopened,
\* the index has one entry per file and the compression of entry k is the
\* codec file_encoding_to_use chose for file k when it was written.
WriterReaderTagsAgree ==
    (wargs.kind = "NSA" /\ w_result = "true" /\ src_files \in FileLists /\ Opened) =>
        /\ Len(arc.index.entries) = Len(src_files)
        /\ \A k \in 1..Len(src_files) :
              arc.index.entries[k].compression =
                  file_encoding_to_use(src_files[k].name, src_files[k].data,
                                       wargs.bzip2, wargs.spb)

(***************************************************************************)
(* bit_distances at the ends of the byte range: encode_spb on 5x1 rows     *)
(* whose three channels are s, 255 - s and s + 128 (mod 256).              *)
(***************************************************************************)
EdgeValues == {0, 3, 8, 24, 80, 255}

EdgeImage(s) ==
    [width |-> 5, height |-> 1,
     pixel_buffer |-> [k \in 1..5 |-> <<s[k], 255 - s[k], (s[k] + 128) % 256>>]]

EdgeImages == {EdgeImage(s) : s \in [1..5 -> EdgeValues]}

DistanceInit ==
    /\ build \in Builds
    /\ image \in EdgeImages
    /\ spb_data = <<>>
    /\ bmp = NoPicture
    /\ spb_pc = "input"
    /\ KeyIdle /\ EncIdle /\ ArcIdle

SpecDistance == DistanceInit /\ [][SpbNext]_vars

\* The two consistency checks of bit_distances and the u8 arithmetic of its
\* loop, acc being what the loop computed for last_byte and the samples.
ChecksPass(last_byte, samples, acc) ==
    /\ ~acc.overflow
    /\ (\A k \in 1..4 : samples[k] = last_byte) => acc.max_bits_to_read = 0
    /\ (2 <= acc.max_bits_to_read /\ acc.max_bits_to_read <= 6) =>
           \E k \in 1..4 : acc.differences[k].difference > 1
    /\ bit_distances(last_byte, samples).kind # "Panic"

\* C30: encode_spb of a 5x1 row does not panic, and for the window of each
\* channel bit_distances finds max_bits_to_read = 0 when all four samples
\* equal the previous byte, a magnitude greater than 1 when
\* 2 <= max_bits_to_read <= 6, and never leaves 0..255 with its running
\* previous byte.
DistanceChecksUnreachable ==
    (image \in EdgeImages /\ spb_pc # "input") =>
        /\ spb_pc # "panicked"
        /\ \A ch \in 0..2 :
              ChecksPass(image.pixel_buffer[1][ch + 1], Window(image.pixel_buffer, ch, 1),
                         DistanceAcc(image.pixel_buffer[1][ch + 1],
                                     Window(image.pixel_buffer, ch, 1)))

DistanceChecksWitness ==
    /\ image = EdgeImage(<<255, 0, 3, 3, 255>>)
    /\ spb_pc = "encoded"
    /\ DistanceAcc(0, <<255, 252, 252, 0>>).max_bits_to_read = 8
    /\ DistanceAcc(127, <<128, 131, 131, 127>>).max_bits_to_read = 3

====
